---- MODULE Spec2Model ----
(***************************************************************************)
(* Link reconciliation and liveness-check pipeline of the ODM external     *)
(* links checker: URL normalisation and manifest reconciliation            *)
(* (src/src/links_cleaner.py), concurrent HEAD/GET probing                 *)
(* and persistence of the artifacts (src/src/links_validator.py), report   *)
(* aggregation (src/src/reporter.py) and the steps of main (src/main.py,   *)
(* src/src/startup.py, src/src/navigator.py).                              *)
(*                                                                         *)
(* A URL is a sequence of one-character strings, so that the string        *)
(* operations of the code (strip, urlsplit, lower, rstrip, urlunsplit) are *)
(* computed character by character.                                        *)
(***************************************************************************)
EXTENDS Integers, Sequences, FiniteSets, TLC

\* ------------------------------------------------------------------------
\* Characters and strings
\* ------------------------------------------------------------------------

\* Python's None, kept apart from every string (the empty string is <<>>).
None == <<"<None>">>

UpperCase ==
  <<"A", "B", "C", "D", "E", "F", "G", "H", "I", "J", "K", "L", "M", "N", "O", "P", "Q", "R", "S", "T", "U", "V", "W", "X", "Y", "Z">>

LowerCase ==
  <<"a", "b", "c", "d", "e", "f", "g", "h", "i", "j", "k", "l", "m", "n", "o", "p", "q", "r", "s", "t", "u", "v", "w", "x", "y", "z">>

Digits == {"0", "1", "2", "3", "4", "5", "6", "7", "8", "9"}

IsUpper(c) == \E i \in 1..26 : UpperCase[i] = c

IsAlpha(c) == \E i \in 1..26 : UpperCase[i] = c \/ LowerCase[i] = c

\* str.lower() on one character
ToLower(c) == IF IsUpper(c) THEN LowerCase[CHOOSE i \in 1..26 : UpperCase[i] = c] ELSE c

\* str.lower()
Lower(s) == [i \in 1..Len(s) |-> ToLower(s[i])]

\* the whitespace str.strip() removes
IsSpace(c) == c = " "

\* the code point of a character, for sorted() on strings
Ord(c) ==
  IF \E i \in 1..26 : UpperCase[i] = c THEN 64 + (CHOOSE i \in 1..26 : UpperCase[i] = c)
  ELSE IF \E i \in 1..26 : LowerCase[i] = c THEN 96 + (CHOOSE i \in 1..26 : LowerCase[i] = c)
  ELSE IF c = " " THEN 32
  ELSE IF c = "#" THEN 35
  ELSE IF c = "/" THEN 47
  ELSE IF c = ":" THEN 58
  ELSE IF c = "?" THEN 63
  ELSE 0

RECURSIVE LStrip(_)
LStrip(s) == IF s # <<>> /\ IsSpace(Head(s)) THEN LStrip(Tail(s)) ELSE s

RECURSIVE RStrip(_)
RStrip(s) ==
  IF s # <<>> /\ IsSpace(s[Len(s)]) THEN RStrip(SubSeq(s, 1, Len(s) - 1)) ELSE s

\* str.strip()
Strip(s) == RStrip(LStrip(s))

\* str.find(c, start) with 1-based positions; 0 when c does not occur
Find(s, c, start) ==
  IF \E i \in start..Len(s) : s[i] = c
  THEN CHOOSE i \in start..Len(s) : s[i] = c /\ \A j \in start..(i - 1) : s[j] # c
  ELSE 0

\* str.rstrip("/")
RECURSIVE RStripSlash(_)
RStripSlash(s) ==
  IF s # <<>> /\ s[Len(s)] = "/" THEN RStripSlash(SubSeq(s, 1, Len(s) - 1)) ELSE s

\* string comparison of sorted(): s < t
RECURSIVE StrLess(_, _)
StrLess(s, t) ==
  IF t = <<>> THEN FALSE
  ELSE IF s = <<>> THEN TRUE
  ELSE IF Ord(Head(s)) # Ord(Head(t)) THEN Ord(Head(s)) < Ord(Head(t))
  ELSE StrLess(Tail(s), Tail(t))

\* sorted() of a set of strings
RECURSIVE SortedStrings(_)
SortedStrings(S) ==
  IF S = {} THEN <<>>
  ELSE LET m == CHOOSE x \in S : \A y \in S \ {x} : StrLess(x, y)
       IN  <<m>> \o SortedStrings(S \ {m})

\* ------------------------------------------------------------------------
\* urllib.parse.urlsplit / urlunsplit, as _normalize_url calls them
\* ------------------------------------------------------------------------

IsSchemeChar(c) == IsAlpha(c) \/ c \in Digits \/ c \in {"+", "-", "."}

\* urllib.parse.uses_netloc (without the empty scheme, tested separately)
UsesNetloc ==
  { <<"f", "t", "p">>,
      <<"h", "t", "t", "p">>,
      <<"g", "o", "p", "h", "e", "r">>,
      <<"n", "n", "t", "p">>,
      <<"t", "e", "l", "n", "e", "t">>,
      <<"i", "m", "a", "p">>,
      <<"w", "a", "i", "s">>,
      <<"f", "i", "l", "e">>,
      <<"m", "m", "s">>,
      <<"h", "t", "t", "p", "s">>,
      <<"s", "h", "t", "t", "p">>,
      <<"s", "n", "e", "w", "s">>,
      <<"p", "r", "o", "s", "p", "e", "r", "o">>,
      <<"r", "t", "s", "p">>,
      <<"r", "t", "s", "p", "s">>,
      <<"r", "t", "s", "p", "u">>,
      <<"r", "s", "y", "n", "c">>,
      <<"s", "v", "n">>,
      <<"s", "v", "n", "+", "s", "s", "h">>,
      <<"s", "f", "t", "p">>,
      <<"n", "f", "s">>,
      <<"g", "i", "t">>,
      <<"g", "i", "t", "+", "s", "s", "h">>,
      <<"w", "s">>,
      <<"w", "s", "s">> }

\* _splitnetloc(url, 2): the end of the authority is the first of "/?#"
NetlocEnd(url) ==
  LET ds == {Find(url, c, 3) : c \in {"/", "?", "#"}} \ {0}
  IN  IF ds = {} THEN Len(url) + 1
      ELSE CHOOSE d \in ds : \A e \in ds : d <= e

\* urlsplit, the scheme: the text before the first ":" when it starts with a
\* letter and holds scheme characters only
SplitScheme(url) ==
  LET i == Find(url, ":", 1)
  IN  IF i > 1 /\ IsAlpha(url[1]) /\ \A k \in 1..(i - 1) : IsSchemeChar(url[k])
      THEN [scheme |-> Lower(SubSeq(url, 1, i - 1)), rest |-> SubSeq(url, i + 1, Len(url))]
      ELSE [scheme |-> <<>>, rest |-> url]

\* urlsplit, the authority: what follows a leading "//"
SplitNetloc(url) ==
  IF Len(url) >= 2 /\ url[1] = "/" /\ url[2] = "/"
  THEN [netloc |-> SubSeq(url, 3, NetlocEnd(url) - 1),
        rest |-> SubSeq(url, NetlocEnd(url), Len(url))]
  ELSE [netloc |-> <<>>, rest |-> url]

\* str.split(c, 1) of urlsplit: the text before and after the first c
SplitAt(url, c) ==
  LET f == Find(url, c, 1)
  IN  IF f > 0
      THEN [before |-> SubSeq(url, 1, f - 1), after |-> SubSeq(url, f + 1, Len(url))]
      ELSE [before |-> url, after |-> <<>>]

UrlSplit(url0) ==
  LET s == SplitScheme(LStrip(url0))
      n == SplitNetloc(s.rest)
      f == SplitAt(n.rest, "#")
      q == SplitAt(f.before, "?")
  IN  [scheme |-> s.scheme, netloc |-> n.netloc, path |-> q.before,
       query |-> q.after, fragment |-> f.after]

\* urlunsplit, the authority part: "//" netloc path
WithNetloc(scheme, netloc, path) ==
  IF netloc # <<>>
     \/ (/\ scheme # <<>>
         /\ scheme \in UsesNetloc
         /\ ~(Len(path) >= 2 /\ path[1] = "/" /\ path[2] = "/"))
  THEN <<"/", "/">> \o netloc
         \o (IF path # <<>> /\ path[1] # "/" THEN <<"/">> ELSE <<>>) \o path
  ELSE path

UrlUnsplit(scheme, netloc, path, query, fragment) ==
  (IF scheme # <<>> THEN scheme \o <<":">> ELSE <<>>)
    \o WithNetloc(scheme, netloc, path)
    \o (IF query # <<>> THEN <<"?">> \o query ELSE <<>>)
    \o (IF fragment # <<>> THEN <<"#">> \o fragment ELSE <<>>)

\* _normalize_url, the path: trailing slashes removed unless the path is "/"
NormalizePath(path) ==
  IF path # <<>> /\ path[Len(path)] = "/" /\ path # <<"/">>
  THEN RStripSlash(path)
  ELSE path

\* as NormalizeParts, lower-casing the path with the scheme and the host
NormalizePartsLowerPath(parts) ==
  UrlUnsplit(Lower(parts.scheme), Lower(parts.netloc),
             Lower(NormalizePath(parts.path)), parts.query, parts.fragment)

\* _normalize_url after strip(), for a non-empty string
NormalizeParts(parts) ==
  UrlUnsplit(Lower(parts.scheme), Lower(parts.netloc), NormalizePath(parts.path),
             parts.query, parts.fragment)

\* links_cleaner._normalize_url
NormalizeUrl(url) ==
  IF url = None THEN <<>>
  ELSE IF Strip(url) = <<>> THEN <<>>
  ELSE NormalizeParts(UrlSplit(Strip(url)))

\* as ReporterNormalizeUrl, without the strip of surrounding whitespace
ReporterNormalizeUrlUnstripped(url) ==
  IF url = None THEN <<>>
  ELSE IF url = <<>> THEN <<>>
  ELSE NormalizeParts(UrlSplit(url))

\* reporter._normalize_url: the same statements as links_cleaner's
ReporterNormalizeUrl(url) ==
  IF url = None THEN <<>>
  ELSE IF Strip(url) = <<>> THEN <<>>
  ELSE NormalizeParts(UrlSplit(Strip(url)))

\* ------------------------------------------------------------------------
\* Bounds and the inputs the model draws from
\* ------------------------------------------------------------------------

\* longest input collection given to check_links_status
MaxLinks == 2

\* largest max_workers a batch is run with
MaxWorkers == 2

\* longest raw list given to clean_links_for_tab
MaxRaw == 4

\* longest string over UrlAlphabet given to _normalize_url
MaxUrlLen == 4

\* longest list of Status Records in the artifact a report is drawn from
MaxItems == 3

UrlX == <<"h", ":", "/", "/", "a", "/", "x">>
UrlXSlash == <<"h", ":", "/", "/", "a", "/", "x", "/">>
UrlA == <<"h", "t", "t", "p", ":", "/", "/", "a", "/", "p">>
UrlAUpper == <<" ", "H", "T", "T", "P", ":", "/", "/", "A", "/", "p", "/">>
UrlB == <<"h", "t", "t", "p", ":", "/", "/", "b">>
UrlY == <<"h", ":", "/", "/", "y">>

\* the links a batch is given: two spellings of one target, another link,
\* None and the empty string
BatchUniverse == {UrlX, UrlXSlash, UrlY, None, <<>>}

SeqsUpTo(S, n) == UNION {[1..k -> S] : k \in 0..n}

\* the characters of the short strings _normalize_url is given: a lower
\* and an upper case letter, the delimiters of a URL, and the space
UrlAlphabet == {"h", "A", "/", ":", "?", "#", " "}

UrlXSlashSlash == <<"h", ":", "/", "/", "a", "/", "x", "/", "/">>
UrlRoot == <<"h", ":", "/", "/", "a", "/">>
UrlPadded == <<" ", "H", ":", "/", "/", "A", "/", "x", "/", " ">>

\* the arguments of _normalize_url: None, every short string, and URLs with
\* no, one and two trailing slashes, a root path, padding and upper case
NormalizeInputs ==
  {None} \cup SeqsUpTo(UrlAlphabet, MaxUrlLen)
    \cup {UrlX, UrlXSlash, UrlXSlashSlash, UrlRoot, UrlPadded, UrlA, UrlAUpper}

\* the components URLs are written from, in two spellings that differ in
\* the case of letters
UrlParts ==
  [scheme : {<<"h", "t", "t", "p">>, <<"H", "T", "T", "P">>},
   host : {<<"a", "b">>, <<"A", "b">>},
   path : {<<>>, <<"/">>, <<"/", "p">>, <<"/", "P">>, <<"/", "p", "/">>},
   query : {<<>>, <<"q">>, <<"Q">>},
   fragment : {<<>>, <<"f">>, <<"F">>}]

NoParts ==
  [scheme |-> <<>>, host |-> <<>>, path |-> <<>>, query |-> <<>>, fragment |-> <<>>]

\* the URL string with the components p
BuildUrl(p) ==
  p.scheme \o <<":", "/", "/">> \o p.host \o p.path
    \o (IF p.query # <<>> THEN <<"?">> \o p.query ELSE <<>>)
    \o (IF p.fragment # <<>> THEN <<"#">> \o p.fragment ELSE <<>>)

SameUpToCase(p, q) ==
  /\ Lower(p.scheme) = Lower(q.scheme)
  /\ Lower(p.host) = Lower(q.host)
  /\ Lower(p.path) = Lower(q.path)
  /\ Lower(p.query) = Lower(q.query)
  /\ Lower(p.fragment) = Lower(q.fragment)

\* ------------------------------------------------------------------------
\* links_validator: one request, one link
\* ------------------------------------------------------------------------

\* Python's None in an integer, a method and an error field
NoStatus == 0 - 1
NoMethod == "<None>"
NoError == "<None>"

\* What urlopen does for one request: a response with a status (or, from
\* the handler of a scheme that is not HTTP, such as file, ftp or data, a
\* response whose status is None), an HTTPError carrying a code (or none),
\* a URLError, or an error that is no URLError (a read timeout, a reset
\* connection: raised by getresponse() unwrapped).
Response(code) == [kind |-> "response", code |-> code]
HTTPError(code) == [kind |-> "HTTPError", code |-> code]
URLError == [kind |-> "URLError", code |-> NoStatus]
TimeoutError == [kind |-> "TimeoutError", code |-> NoStatus]

\* every answer the single-link scenario draws from
WideHeadAnswers ==
  {Response(200), Response(NoStatus), URLError, TimeoutError}
    \cup {HTTPError(c) : c \in {400, 401, 402, 403, 404, 405, 410, 500, NoStatus}}

WideGetAnswers ==
  {Response(200), URLError, TimeoutError}
    \cup {HTTPError(c) : c \in {304, 404, 500, NoStatus}}

\* the answers the batch scenario draws from
NarrowHeadAnswers == {Response(200), HTTPError(405), URLError, TimeoutError}

NarrowGetAnswers == {Response(200), HTTPError(404), TimeoutError}

\* _request: the status it returns, or the exception it lets through
Request(a) ==
  IF a.kind = "response"
  THEN [kind |-> "status", code |-> a.code, exc |-> NoError]
  ELSE IF a.kind = "HTTPError"
  THEN [kind |-> "status", code |-> IF a.code = NoStatus THEN 0 ELSE a.code, exc |-> NoError]
  ELSE [kind |-> "raise", code |-> NoStatus, exc |-> a.kind]

\* the statuses of a HEAD that check_link retries with GET
FallbackStatuses == {400, 401, 402, 403, 404, 405} \cup {0}

\* a Status Record (final_url, elapsed_ms and checked_at are not modelled)
NoRecord ==
  [url |-> <<>>, status_code |-> NoStatus, ok |-> FALSE,
   method_used |-> NoMethod, error |-> NoError]

\* as SuccessRecord, with ok computed as status < 400
SuccessRecordNoLowerBound(url, status, method) ==
  [url |-> url, status_code |-> status, ok |-> (status < 400),
   method_used |-> method, error |-> NoError]

\* check_link's normal return
SuccessRecord(url, status, method) ==
  [url |-> url, status_code |-> status, ok |-> (200 <= status /\ status < 400),
   method_used |-> method, error |-> NoError]

\* as TerminalRecord, naming GET as the method
TerminalRecordLastMethod(url, exc) ==
  [url |-> url, status_code |-> NoStatus, ok |-> FALSE,
   method_used |-> "GET", error |-> exc]

\* check_link's two early returns
TerminalRecord(url, exc) ==
  [url |-> url, status_code |-> NoStatus, ok |-> FALSE,
   method_used |-> "HEAD", error |-> exc]

\* as AfterHead, with a HEAD that runs into its timeout never resolved
AfterHeadNeverResolves(url, r) ==
  IF r.kind = "status"
  THEN IF r.code \in FallbackStatuses
       THEN [stage |-> "get", rec |-> NoRecord]
       ELSE [stage |-> "done", rec |-> SuccessRecord(url, r.code, "HEAD")]
  ELSE IF r.exc = "URLError"
       THEN [stage |-> "get_fallback", rec |-> NoRecord]
       ELSE [stage |-> "hung", rec |-> NoRecord]

\* check_link after the HEAD request came back with r
AfterHead(url, r) ==
  IF r.kind = "status"
  THEN IF r.code \in FallbackStatuses
       THEN [stage |-> "get", rec |-> NoRecord]
       ELSE [stage |-> "done", rec |-> SuccessRecord(url, r.code, "HEAD")]
  ELSE IF r.exc = "URLError"
       THEN [stage |-> "get_fallback", rec |-> NoRecord]
       ELSE [stage |-> "done", rec |-> TerminalRecord(url, r.exc)]

\* check_link after a GET request came back with r; stage "get" is the GET of
\* the try block, "get_fallback" the GET of the URLError handler
AfterGet(url, stage, r) ==
  IF r.kind = "status"
  THEN [stage |-> "done", rec |-> SuccessRecord(url, r.code, "GET")]
  ELSE IF stage = "get" /\ r.exc = "URLError"
       THEN [stage |-> "get_fallback", rec |-> NoRecord]
       ELSE [stage |-> "done", rec |-> TerminalRecord(url, r.exc)]

\* ------------------------------------------------------------------------
\* links_validator: the batch
\* ------------------------------------------------------------------------

\* check_links_status, "Deduplicate while preserving order"
RECURSIVE DedupeFrom(_, _, _)
DedupeFrom(ls, seen, acc) ==
  IF ls = <<>> THEN acc
  ELSE LET u == Head(ls)
       IN  IF u = None \/ u = <<>> THEN DedupeFrom(Tail(ls), seen, acc)
           ELSE IF u \in seen THEN DedupeFrom(Tail(ls), seen, acc)
           ELSE DedupeFrom(Tail(ls), seen \cup {u}, Append(acc, u))

Dedupe(ls) == DedupeFrom(ls, {}, <<>>)

\* the record check_links_status appends for a finished future
FutureResult(f, u) ==
  IF f.raised
  THEN [url |-> u, status_code |-> NoStatus, ok |-> FALSE,
        method_used |-> NoMethod, error |-> f.exc]
  ELSE f.rec

\* the orders in which the futures of a batch can complete
CompletionOrders(rs) ==
  {[k \in 1..Len(rs) |-> rs[f[k]]] :
     f \in {g \in [1..Len(rs) -> 1..Len(rs)] :
              \A a \in 1..Len(rs) : \A b \in 1..Len(rs) : g[a] = g[b] => a = b}}

\* what the servers answer in a run of the whole pipeline
PipeHeadAnswers == {Response(200), HTTPError(405), TimeoutError}
PipeGetAnswers == {HTTPError(404)}

\* the records check_link can return for url in a run of the pipeline
CheckLinkResults(url) ==
  LET heads == {AfterHead(url, Request(a)) : a \in PipeHeadAnswers}
      gets == {AfterGet(url, h.stage, Request(g)) :
                 h \in {x \in heads : x.stage # "done"}, g \in PipeGetAnswers}
  IN  {h.rec : h \in {x \in heads : x.stage = "done"}}
        \cup {g.rec : g \in {x \in gets : x.stage = "done"}}

\* the lists check_links_status can return for ls: a record of check_link
\* for every deduplicated link, in any completion order
CheckLinksStatusResults(ls) ==
  LET d == Dedupe(ls)
      recs == UNION {CheckLinkResults(d[k]) : k \in 1..Len(d)}
  IN  UNION {CompletionOrders(rs) :
               rs \in {r \in [1..Len(d) -> recs] :
                         \A k \in 1..Len(d) : r[k] \in CheckLinkResults(d[k])}}

VARIABLES
  links,         \* the collection check_links_status is called with
  max_workers,   \* its max_workers argument
  headAnswers,   \* what the remote servers may answer to a HEAD
  getAnswers,    \* what the remote servers may answer to a GET
  pc,            \* the calling thread: "call", "collect", "returned", "raised"
  deduped,       \* the deduplicated links, in submission order
  queue,         \* the executor's work queue: submitted, not yet started
  worker,        \* worker thread -> the future it runs, 0 when idle
  probe,         \* future -> the state of its check_link call
  inflight,      \* the requests sent and not yet answered
  results,       \* the list check_links_status returns
  raw,           \* clean_links_for_tab's retrieved_links
  tab_name,      \* its tab_name
  manifest,      \* its manifest: tab name -> sequence of entries
  cleanPc,       \* "call" before clean_links_for_tab ran, "done" after;
                 \* "call_dimensions" and "done_dimensions" for
                 \* clean_links_for_dimensions
  cleanOut,      \* what it returned, or that it raised
  manifest_or_path, \* "dict": the manifest is passed; "path": its file is
  level,         \* clean_links_for_dimensions' level
  manifestFile,  \* the file ODM_external_links_manifesto.json
  statusDir,     \* whether the directory link_status exists
  statusFiles,   \* the files in link_status: file name -> content
  reportPc,      \* "call" before generate_screen_report ran, "done" after
  report,        \* what generate_screen_report printed, or that it raised
  links_by_tab,  \* check_and_save_link_statuses_by_tab's argument, in the
                 \* order of its keys: a sequence of [key, links]
  savePc,        \* "call", "loop", "returned", "raised"
  saveIdx,       \* the position in links_by_tab the loop is at
  outputs,       \* its outputs dict: tab key -> path
  saveErr,       \* the error a mkdir or a write ran into
  batches,       \* tab key -> the statuses check_links_status returned
  mainPc,        \* main: "initializer", "visit", "clean", "check",
                 \* "checking", "report", "done", "crashed"
  retrieved_links, \* main's retrieved_links: what visit_links_tabs returned
  retrieve_links_tab, \* visit_links_tabs' dict: tab key -> what it appended
  cleaned,       \* rec_clean, dim_clean and cprof_clean by tab key
  url_x,         \* a string given to _normalize_url
  url_y,         \* a second string, normalized for comparison with the first
  parts_x,       \* the components url_x was written from, or NoParts
  parts_y,       \* the components url_y was written from, or NoParts
  normPc,        \* "call" before _normalize_url ran, "done" after
  normOut        \* the normalized strings

batchVars ==
  <<links, max_workers, headAnswers, getAnswers, pc, deduped, queue, worker,
    probe, inflight, results>>

cleanVars == <<raw, tab_name, manifest, cleanPc, cleanOut, manifest_or_path, level>>

fsVars == <<manifestFile, statusDir, statusFiles>>

reportVars == <<reportPc, report>>

saveVars == <<links_by_tab, savePc, saveIdx, outputs, saveErr, batches>>

mainVars == <<mainPc, retrieved_links, retrieve_links_tab, cleaned>>

normVars == <<url_x, url_y, parts_x, parts_y, normPc, normOut>>

\* what a call of check_links_status leaves alone
nonBatchVars == <<cleanVars, fsVars, normVars, reportVars, saveVars, mainVars>>

\* what a call of the reconciler leaves alone
nonCleanVars == <<batchVars, fsVars, normVars, reportVars, saveVars, mainVars>>

\* what a call of _normalize_url leaves alone
nonNormVars == <<batchVars, cleanVars, fsVars, reportVars, saveVars, mainVars>>

\* what generate_screen_report leaves alone: it reads the files
nonReportVars == <<batchVars, cleanVars, fsVars, normVars, saveVars, mainVars>>

\* what main and check_and_save_link_statuses_by_tab leave alone
nonPipeVars == <<batchVars, cleanVars, normVars>>

vars == <<batchVars, cleanVars, fsVars, normVars, reportVars, saveVars, mainVars>>

NewProbe ==
  [stage |-> "queued", sent |-> <<>>, outs |-> <<>>, raised |-> FALSE,
   exc |-> NoError, rec |-> NoRecord, collected |-> FALSE]

\* one link and every answer, or a collection of links and a few answers
BatchInit ==
  /\ \/ /\ links \in {<<UrlX>>}
        /\ max_workers = 1
        /\ headAnswers = WideHeadAnswers
        /\ getAnswers = WideGetAnswers
     \/ /\ links \in SeqsUpTo(BatchUniverse, MaxLinks)
        /\ max_workers \in 1..MaxWorkers
        /\ headAnswers = NarrowHeadAnswers
        /\ getAnswers = NarrowGetAnswers
  /\ pc = "call"
  /\ deduped = <<>>
  /\ queue = <<>>
  /\ worker = [w \in 1..max_workers |-> 0]
  /\ probe = <<>>
  /\ inflight = {}
  /\ results = <<>>

\* check_links_status up to the end of the submit loop
Submit ==
  /\ pc = "call"
  /\ deduped' = Dedupe(links)
  /\ probe' = [i \in 1..Len(deduped') |-> NewProbe]
  /\ queue' = [i \in 1..Len(deduped') |-> i]
  /\ pc' = "collect"
  /\ UNCHANGED <<links, max_workers, headAnswers, getAnswers, worker, inflight, results>>
  /\ UNCHANGED nonBatchVars

\* as StartProbe, without waiting for the worker to be idle
StartProbeBusyWorker(w) ==
  /\ queue # <<>>
  /\ LET i == Head(queue)
     IN  /\ worker' = [worker EXCEPT ![w] = i]
         /\ probe' = [probe EXCEPT ![i].stage = "head", ![i].sent = <<"HEAD">>]
         /\ inflight' = inflight \cup {[w |-> w, i |-> i, method |-> "HEAD"]}
  /\ queue' = Tail(queue)
  /\ UNCHANGED <<links, max_workers, headAnswers, getAnswers, pc, deduped, results>>
  /\ UNCHANGED nonBatchVars

\* an idle worker thread takes the next submitted call and check_link sends HEAD
StartProbe(w) ==
  /\ worker[w] = 0
  /\ queue # <<>>
  /\ LET i == Head(queue)
     IN  /\ worker' = [worker EXCEPT ![w] = i]
         /\ probe' = [probe EXCEPT ![i].stage = "head", ![i].sent = <<"HEAD">>]
         /\ inflight' = inflight \cup {[w |-> w, i |-> i, method |-> "HEAD"]}
  /\ queue' = Tail(queue)
  /\ UNCHANGED <<links, max_workers, headAnswers, getAnswers, pc, deduped, results>>
  /\ UNCHANGED nonBatchVars

\* check_link from the answer to a request to its next request or its return
Advance(w, i, method, r, nxt) ==
  /\ probe' = [probe EXCEPT
       ![i].stage = nxt.stage,
       ![i].outs = Append(@, r),
       ![i].sent = IF nxt.stage = "done" THEN @ ELSE Append(@, "GET"),
       ![i].rec = nxt.rec]
  /\ inflight' = (inflight \ {[w |-> w, i |-> i, method |-> method]})
       \cup (IF nxt.stage = "done" THEN {} ELSE {[w |-> w, i |-> i, method |-> "GET"]})
  /\ worker' = [worker EXCEPT ![w] = IF nxt.stage = "done" THEN 0 ELSE i]
  /\ UNCHANGED <<links, max_workers, headAnswers, getAnswers, pc, deduped, queue, results>>
  /\ UNCHANGED nonBatchVars

\* the HEAD request of worker w is answered
HeadReturns(w) ==
  /\ worker[w] # 0
  /\ probe[worker[w]].stage = "head"
  /\ \E a \in headAnswers :
       LET i == worker[w]
       IN  Advance(w, i, "HEAD", Request(a), AfterHead(deduped[i], Request(a)))

\* a GET request of worker w is answered
GetReturns(w) ==
  /\ worker[w] # 0
  /\ probe[worker[w]].stage \in {"get", "get_fallback"}
  /\ \E a \in getAnswers :
       LET i == worker[w]
       IN  Advance(w, i, "GET", Request(a),
                   AfterGet(deduped[i], probe[i].stage, Request(a)))

\* as Collect, with the error of a failed probe raised to the caller
CollectRaising(i) ==
  /\ pc = "collect"
  /\ probe[i].stage = "done"
  /\ ~probe[i].collected
  /\ IF probe[i].rec.status_code = NoStatus
     THEN pc' = "raised" /\ results' = results
     ELSE pc' = pc /\ results' = Append(results, FutureResult(probe[i], deduped[i]))
  /\ probe' = [probe EXCEPT ![i].collected = TRUE]
  /\ UNCHANGED <<links, max_workers, headAnswers, getAnswers, deduped, queue,
                 worker, inflight>>
  /\ UNCHANGED nonBatchVars

\* as_completed yields a finished future and its result is appended
Collect(i) ==
  /\ pc = "collect"
  /\ probe[i].stage = "done"
  /\ ~probe[i].collected
  /\ results' = Append(results, FutureResult(probe[i], deduped[i]))
  /\ probe' = [probe EXCEPT ![i].collected = TRUE]
  /\ UNCHANGED <<links, max_workers, headAnswers, getAnswers, pc, deduped, queue,
                 worker, inflight>>
  /\ UNCHANGED nonBatchVars

\* every future was yielded: the executor shuts down and results is returned
Return ==
  /\ pc = "collect"
  /\ \A i \in 1..Len(deduped) : probe[i].collected
  /\ pc' = "returned"
  /\ UNCHANGED <<links, max_workers, headAnswers, getAnswers, deduped, queue, worker,
                 probe, inflight, results>>
  /\ UNCHANGED nonBatchVars

BatchNext ==
  \/ Submit
  \/ \E w \in 1..max_workers : StartProbe(w)
  \/ \E w \in 1..max_workers : HeadReturns(w)
  \/ \E w \in 1..max_workers : GetReturns(w)
  \/ \E i \in 1..Len(deduped) : Collect(i)
  \/ Return

\* ------------------------------------------------------------------------
\* links_cleaner: manifest index and reconciliation
\* ------------------------------------------------------------------------

TabNames == <<"Recommendations", "Dimensions", "Country profiles">>

Entry(lvl, url) == [level |-> lvl, url |-> url]

\* manifest.get(tab_name, [])
ManifestGet(m, tab) == IF tab \in DOMAIN m THEN m[tab] ELSE <<>>

\* "if not url": None and the empty string
Falsy(url) == url = None \/ url = <<>>

\* _build_index, first component: tab name -> set of normalized URLs
TabIndex(m) ==
  [tab \in {TabNames[k] : k \in 1..3} |->
     LET entries == ManifestGet(m, tab)
     IN  {NormalizeUrl(entries[k].url) :
            k \in {j \in 1..Len(entries) : ~Falsy(entries[j].url)}}]

\* _build_index, second component: level -> set of normalized URLs of the
\* Dimensions entries that carry that level
LevelIndex(m) ==
  LET entries == ManifestGet(m, "Dimensions")
      used == {j \in 1..Len(entries) : ~Falsy(entries[j].url) /\ entries[j].level # ""}
  IN  [lvl \in {entries[j].level : j \in used} |->
         {NormalizeUrl(entries[j].url) : j \in {k \in used : entries[k].level = lvl}}]

\* as CleanLoop, keeping the normalized form instead of the retrieved string
RECURSIVE CleanLoopNormalized(_, _, _, _)
CleanLoopNormalized(ls, allowed, seen, result) ==
  IF ls = <<>> THEN result
  ELSE LET url == Head(ls)
           nurl == NormalizeUrl(url)
       IN  IF url = None THEN CleanLoopNormalized(Tail(ls), allowed, seen, result)
           ELSE IF nurl \in allowed /\ nurl \notin seen
           THEN CleanLoopNormalized(Tail(ls), allowed, seen \cup {nurl}, Append(result, nurl))
           ELSE CleanLoopNormalized(Tail(ls), allowed, seen, result)

\* the loop of clean_links_for_tab over retrieved_links
RECURSIVE CleanLoop(_, _, _, _)
CleanLoop(ls, allowed, seen, result) ==
  IF ls = <<>> THEN result
  ELSE LET url == Head(ls)
           nurl == NormalizeUrl(url)
       IN  IF url = None THEN CleanLoop(Tail(ls), allowed, seen, result)
           ELSE IF nurl \in allowed /\ nurl \notin seen
           THEN CleanLoop(Tail(ls), allowed, seen \cup {nurl}, Append(result, url))
           ELSE CleanLoop(Tail(ls), allowed, seen, result)

\* the file at a manifest path: whether it exists, what json.load makes of
\* it ("object", "array", "null", or "invalid" when it is not JSON), and
\* the keys and values of the object or the elements of the array
ManifestFile(exists, json, data) == [exists |-> exists, json |-> json, data |-> data]

\* _load_manifest_from_path
LoadManifestFromPath(file) ==
  IF ~file.exists
  THEN [raised |-> TRUE, error |-> "FileNotFoundError", data |-> <<>>]
  ELSE IF file.json = "invalid"
  THEN [raised |-> TRUE, error |-> "JSONDecodeError", data |-> <<>>]
  ELSE IF file.json # "object"
  THEN [raised |-> TRUE, error |-> "ValueError: Manifest must be a JSON object",
        data |-> <<>>]
  ELSE IF \E k \in 1..3 : TabNames[k] \notin DOMAIN file.data
  THEN [raised |-> TRUE, error |-> "ValueError: Manifest missing required key",
        data |-> <<>>]
  ELSE [raised |-> FALSE, error |-> NoError, data |-> file.data]

\* as CleanLinksForTab, taking a tab that is not in the index for a tab
\* without links
CleanLinksForTabUnchecked(ls, tab, m) ==
  IF tab \notin DOMAIN TabIndex(m)
  THEN [raised |-> FALSE, error |-> NoError, result |-> CleanLoop(ls, {}, {}, <<>>)]
  ELSE [raised |-> FALSE, error |-> NoError,
        result |-> CleanLoop(ls, TabIndex(m)[tab], {}, <<>>)]

\* clean_links_for_tab from the manifest it has in hand
CleanLinksForTab(ls, tab, m) ==
  IF tab \notin DOMAIN TabIndex(m)
  THEN [raised |-> TRUE, error |-> "ValueError: Invalid tab_name", result |-> <<>>]
  ELSE [raised |-> FALSE, error |-> NoError,
        result |-> CleanLoop(ls, TabIndex(m)[tab], {}, <<>>)]

\* as CleanLinksForDimensions, raising for a level without entries
CleanLinksForDimensionsStrict(ls, lvl, m) ==
  IF lvl \in DOMAIN LevelIndex(m)
  THEN [raised |-> FALSE, error |-> NoError,
        result |-> CleanLoop(ls, LevelIndex(m)[lvl], {}, <<>>)]
  ELSE [raised |-> TRUE, error |-> "KeyError", result |-> <<>>]

\* clean_links_for_dimensions from the manifest it has in hand
CleanLinksForDimensions(ls, lvl, m) ==
  IF lvl \in DOMAIN LevelIndex(m)
  THEN [raised |-> FALSE, error |-> NoError,
        result |-> CleanLoop(ls, LevelIndex(m)[lvl], {}, <<>>)]
  ELSE [raised |-> FALSE, error |-> NoError, result |-> CleanLoop(ls, {}, {}, <<>>)]

\* the manifest resolution both functions start with: the dict that was
\* passed, or the file at the path that was passed
ResolveManifest(kind, m, file) ==
  IF kind = "path" THEN LoadManifestFromPath(file)
  ELSE [raised |-> FALSE, error |-> NoError, data |-> m]

\* what a call returns when the manifest could not be loaded
LoadFailure(loaded) == [raised |-> TRUE, error |-> loaded.error, result |-> <<>>]

CleanUniverse == {UrlA, UrlAUpper, UrlB, None, <<>>}

\* the manifests the model draws from; every one has the three tab keys
ManifestChoices ==
  { [t \in {TabNames[k] : k \in 1..3} |->
       IF t = "Recommendations" THEN <<Entry("", UrlA), Entry("", UrlB)>> ELSE <<>>],
    [t \in {TabNames[k] : k \in 1..3} |->
       IF t = "Recommendations" THEN <<Entry("", UrlAUpper), Entry("", <<>>)>>
       ELSE IF t = "Dimensions" THEN <<Entry("Policy", UrlB)>>
       ELSE <<>>],
    [t \in {TabNames[k] : k \in 1..3} |->
       IF t = "Dimensions"
       THEN <<Entry("Policy", UrlA), Entry("Portal", UrlB), Entry("", UrlAUpper)>>
       ELSE IF t = "Country profiles" THEN <<Entry("", UrlB)>>
       ELSE <<>>] }

TabChoices == {"Recommendations", "Dimensions", "Other"}

LevelChoices == {"Policy", "Portal", "Impact"}

EmptyManifest == [t \in {TabNames[k] : k \in 1..3} |-> <<>>]

\* a manifest object without the key "Country profiles"
TwoKeyManifest ==
  [t \in {"Recommendations", "Dimensions"} |->
     IF t = "Recommendations" THEN <<Entry("", UrlA)>> ELSE <<Entry("Policy", UrlB)>>]

\* the manifest a file holds in the model when it is a complete one
FileManifest ==
  [t \in {TabNames[k] : k \in 1..3} |->
     IF t = "Recommendations" THEN <<Entry("", UrlA)>>
     ELSE IF t = "Dimensions" THEN <<Entry("Policy", UrlB), Entry("Portal", UrlA)>>
     ELSE <<Entry("", UrlB)>>]

\* the states of the manifest file the model draws from
ManifestFileChoices ==
  { ManifestFile(FALSE, "invalid", <<>>),
    ManifestFile(TRUE, "invalid", <<>>),
    ManifestFile(TRUE, "array", <<>>),
    ManifestFile(TRUE, "object", TwoKeyManifest),
    ManifestFile(TRUE, "object", FileManifest) }

NoManifestFile == ManifestFile(FALSE, "invalid", <<>>)

NoCleanOut == [raised |-> FALSE, error |-> NoError, result |-> <<>>]

\* the manifest argument: a dict, or the path of a file
ManifestArgInit ==
  \/ /\ manifest_or_path = "dict"
     /\ manifest \in ManifestChoices
     /\ manifestFile = NoManifestFile
  \/ /\ manifest_or_path = "path"
     /\ manifest = EmptyManifest
     /\ manifestFile \in ManifestFileChoices

CleanInit ==
  /\ raw \in SeqsUpTo(CleanUniverse, MaxRaw)
  /\ ManifestArgInit
  /\ \/ /\ cleanPc = "call"
        /\ tab_name \in TabChoices
        /\ level = "Policy"
     \/ /\ cleanPc = "call_dimensions"
        /\ tab_name = "Dimensions"
        /\ level \in LevelChoices
  /\ cleanOut = NoCleanOut

\* the reconciler is not called in this scenario
CleanIdle ==
  /\ raw = <<>>
  /\ tab_name = "Recommendations"
  /\ manifest = EmptyManifest
  /\ manifest_or_path = "dict"
  /\ level = "Policy"
  /\ cleanPc = "idle"
  /\ cleanOut = NoCleanOut

\* a file of link_status: what json.load makes of it ("list", "object",
\* or "invalid" when it is not JSON) and the items of the list
StatusFile(json, items) == [json |-> json, items |-> items]

\* link_status when it holds no file
NoStatusFiles == [n \in {} |-> StatusFile("invalid", <<>>)]

\* neither the manifest file nor link_status is touched in this scenario
FsIdle ==
  /\ manifestFile = NoManifestFile
  /\ statusDir = FALSE
  /\ statusFiles = NoStatusFiles

\* the prober is not called in this scenario
BatchIdle ==
  /\ links = <<>>
  /\ max_workers = 1
  /\ headAnswers = {}
  /\ getAnswers = {}
  /\ pc = "idle"
  /\ deduped = <<>>
  /\ queue = <<>>
  /\ worker = [w \in 1..1 |-> 0]
  /\ probe = <<>>
  /\ inflight = {}
  /\ results = <<>>

\* one call of clean_links_for_tab
Clean ==
  /\ cleanPc = "call"
  /\ LET loaded == ResolveManifest(manifest_or_path, manifest, manifestFile)
     IN  cleanOut' = IF loaded.raised THEN LoadFailure(loaded)
                     ELSE CleanLinksForTab(raw, tab_name, loaded.data)
  /\ cleanPc' = "done"
  /\ UNCHANGED <<raw, tab_name, manifest, manifest_or_path, level>>
  /\ UNCHANGED nonCleanVars

\* one call of clean_links_for_dimensions
CleanDimensions ==
  /\ cleanPc = "call_dimensions"
  /\ LET loaded == ResolveManifest(manifest_or_path, manifest, manifestFile)
     IN  cleanOut' = IF loaded.raised THEN LoadFailure(loaded)
                     ELSE CleanLinksForDimensions(raw, level, loaded.data)
  /\ cleanPc' = "done_dimensions"
  /\ UNCHANGED <<raw, tab_name, manifest, manifest_or_path, level>>
  /\ UNCHANGED nonCleanVars

\* ------------------------------------------------------------------------
\* _normalize_url, called on its own
\* ------------------------------------------------------------------------

NoNormOut ==
  [cleaner |-> <<>>, cleaner_twice |-> <<>>, reporter |-> <<>>,
   reporter_twice |-> <<>>, other |-> <<>>]

NormInit ==
  /\ \/ /\ url_x \in NormalizeInputs
        /\ url_y = url_x
        /\ parts_x = NoParts
        /\ parts_y = NoParts
     \/ /\ parts_x \in UrlParts
        /\ parts_y \in {q \in UrlParts : SameUpToCase(parts_x, q)}
        /\ url_x = BuildUrl(parts_x)
        /\ url_y = BuildUrl(parts_y)
  /\ normPc = "call"
  /\ normOut = NoNormOut

\* _normalize_url is not called on its own in this scenario
NormIdle ==
  /\ url_x = <<>>
  /\ url_y = <<>>
  /\ parts_x = NoParts
  /\ parts_y = NoParts
  /\ normPc = "idle"
  /\ normOut = NoNormOut

\* both _normalize_url functions applied to url_x, and to what they
\* returned; the cleaner's applied to url_y
Normalize ==
  /\ normPc = "call"
  /\ normOut' =
       [cleaner |-> NormalizeUrl(url_x),
        cleaner_twice |-> NormalizeUrl(NormalizeUrl(url_x)),
        reporter |-> ReporterNormalizeUrl(url_x),
        reporter_twice |-> ReporterNormalizeUrl(ReporterNormalizeUrl(url_x)),
        other |-> NormalizeUrl(url_y)]
  /\ normPc' = "done"
  /\ UNCHANGED <<url_x, url_y, parts_x, parts_y>>
  /\ UNCHANGED nonNormVars

\* ------------------------------------------------------------------------
\* reporter: aggregation over the Status Records of a tab
\* ------------------------------------------------------------------------

\* _retrieved_urls_from_status
RetrievedUrls(items) ==
  {ReporterNormalizeUrl(items[k].url) :
     k \in {j \in 1..Len(items) : ~Falsy(items[j].url)}}

\* as AggregateTab, with the two differences taken the other way round
AggregateTabSwapped(items, expected_set) ==
  LET retrieved_set == RetrievedUrls(items)
      ok_200 == Cardinality({k \in 1..Len(items) : items[k].status_code = 200})
      nok == Cardinality({k \in 1..Len(items) : items[k].status_code # 200})
  IN  [expected_count |-> Cardinality(expected_set),
       retrieved_count |-> Cardinality(retrieved_set),
       missing |-> SortedStrings(retrieved_set \ expected_set),
       unexpected |-> SortedStrings(expected_set \ retrieved_set),
       ok_200 |-> ok_200,
       nok |-> nok,
       ok_pct |-> IF Len(items) > 0 THEN <<ok_200 * 100, Len(items)>> ELSE <<0, 1>>]

\* as AggregateTab, with a record without status code left out of nok
AggregateTabNokSkipsNull(items, expected_set) ==
  LET retrieved_set == RetrievedUrls(items)
      ok_200 == Cardinality({k \in 1..Len(items) : items[k].status_code = 200})
      nok == Cardinality({k \in 1..Len(items) :
                            items[k].status_code \notin {200, NoStatus}})
  IN  [expected_count |-> Cardinality(expected_set),
       retrieved_count |-> Cardinality(retrieved_set),
       missing |-> SortedStrings(expected_set \ retrieved_set),
       unexpected |-> SortedStrings(retrieved_set \ expected_set),
       ok_200 |-> ok_200,
       nok |-> nok,
       ok_pct |-> IF Len(items) > 0 THEN <<ok_200 * 100, Len(items)>> ELSE <<0, 1>>]

\* the per-tab figures of _aggregate_tab_data; ok_pct is the fraction
\* <<numerator, denominator>> of ok_200 / len(items) * 100
AggregateTab(items, expected_set) ==
  LET retrieved_set == RetrievedUrls(items)
      ok_200 == Cardinality({k \in 1..Len(items) : items[k].status_code = 200})
      nok == Cardinality({k \in 1..Len(items) : items[k].status_code # 200})
  IN  [expected_count |-> Cardinality(expected_set),
       retrieved_count |-> Cardinality(retrieved_set),
       missing |-> SortedStrings(expected_set \ retrieved_set),
       unexpected |-> SortedStrings(retrieved_set \ expected_set),
       ok_200 |-> ok_200,
       nok |-> nok,
       ok_pct |-> IF Len(items) > 0 THEN <<ok_200 * 100, Len(items)>> ELSE <<0, 1>>]

\* as ProblemLoop, with the entry of a URL taken from its latest record
RECURSIVE ProblemLoopLatestWins(_, _)
ProblemLoopLatestWins(items, info) ==
  IF items = <<>> THEN info
  ELSE LET it == Head(items)
           norm == ReporterNormalizeUrl(it.url)
       IN  IF it.status_code = 200 \/ Falsy(it.url)
           THEN ProblemLoopLatestWins(Tail(items), info)
           ELSE ProblemLoopLatestWins(Tail(items),
                  [n \in DOMAIN info \cup {norm} |->
                     IF n = norm
                     THEN [status_code |-> it.status_code, method |-> it.method_used,
                           error |-> it.error, display_url |-> it.url]
                     ELSE info[n]])

\* the loop of _collect_unique_problematic_links: info maps a normalized URL
\* to the entry kept for it
RECURSIVE ProblemLoop(_, _)
ProblemLoop(items, info) ==
  IF items = <<>> THEN info
  ELSE LET it == Head(items)
           norm == ReporterNormalizeUrl(it.url)
       IN  IF it.status_code = 200 \/ Falsy(it.url) THEN ProblemLoop(Tail(items), info)
           ELSE IF norm \notin DOMAIN info
           THEN ProblemLoop(Tail(items),
                  [n \in DOMAIN info \cup {norm} |->
                     IF n = norm
                     THEN [status_code |-> it.status_code, method |-> it.method_used,
                           error |-> it.error, display_url |-> it.url]
                     ELSE info[n]])
           ELSE LET entry == info[norm]
                    filled ==
                      [status_code |-> IF entry.status_code = NoStatus
                                          /\ it.status_code # NoStatus
                                       THEN it.status_code ELSE entry.status_code,
                       method |-> IF entry.method = NoMethod /\ it.method_used # NoMethod
                                  THEN it.method_used ELSE entry.method,
                       error |-> IF entry.error = NoError /\ it.error # NoError
                                 THEN it.error ELSE entry.error,
                       display_url |-> entry.display_url]
                IN  ProblemLoop(Tail(items), [info EXCEPT ![norm] = filled])

\* _collect_unique_problematic_links
CollectUniqueProblematicLinks(all_status_items) ==
  ProblemLoop(all_status_items, [n \in {} |-> NoRecord])

\* ------------------------------------------------------------------------
\* reporter: the report drawn from the manifest file and link_status
\* ------------------------------------------------------------------------

\* TAB_TO_STATUS_FILE
TAB_TO_STATUS_FILE ==
  [t \in {TabNames[k] : k \in 1..3} |->
     IF t = "Recommendations" THEN "recommendations_link_status.json"
     ELSE IF t = "Dimensions" THEN "dimensions_link_status.json"
     ELSE "country_profiles_link_status.json"]

\* what "key in data" looks into: the keys of an object, the elements of
\* an array
Members(file) ==
  IF file.json = "object" THEN DOMAIN file.data
  ELSE {file.data[k] : k \in 1..Len(file.data)}

\* reporter._load_manifest: json.load and "key not in data" on whatever it
\* returned; null is not iterable
ReporterLoadManifest(file) ==
  IF ~file.exists
  THEN [raised |-> TRUE, error |-> "FileNotFoundError", data |-> <<>>]
  ELSE IF file.json = "invalid"
  THEN [raised |-> TRUE, error |-> "JSONDecodeError", data |-> <<>>]
  ELSE IF file.json = "null"
  THEN [raised |-> TRUE, error |-> "TypeError", data |-> <<>>]
  ELSE IF \E k \in 1..3 : TabNames[k] \notin Members(file)
  THEN [raised |-> TRUE, error |-> "ValueError: Manifest missing required key",
        data |-> <<>>]
  ELSE [raised |-> FALSE, error |-> NoError, data |-> file.data]

\* _expected_urls_by_tab
ExpectedUrlsByTab(m) ==
  [tab \in {TabNames[k] : k \in 1..3} |->
     LET entries == ManifestGet(m, tab)
     IN  {ReporterNormalizeUrl(entries[k].url) :
            k \in {j \in 1..Len(entries) : ~Falsy(entries[j].url)}}]

\* _load_status_items
LoadStatusItems(files, name) ==
  IF name \notin DOMAIN files THEN <<>>
  ELSE IF files[name].json = "list" THEN files[name].items
  ELSE <<>>

\* _aggregate_tab_data, first component: the figures of every tab
PerTabData(files, expected_by_tab) ==
  [tab \in {TabNames[k] : k \in 1..3} |->
     AggregateTab(LoadStatusItems(files, TAB_TO_STATUS_FILE[tab]), expected_by_tab[tab])]

\* _aggregate_tab_data, second component: the items of the three files
AllStatusItems(files) ==
  LoadStatusItems(files, TAB_TO_STATUS_FILE[TabNames[1]])
    \o LoadStatusItems(files, TAB_TO_STATUS_FILE[TabNames[2]])
    \o LoadStatusItems(files, TAB_TO_STATUS_FILE[TabNames[3]])

\* per_tab_data[tab]["items"]
ItemsByTab(files) ==
  [tab \in {TabNames[k] : k \in 1..3} |-> LoadStatusItems(files, TAB_TO_STATUS_FILE[tab])]

\* the sections generate_screen_report prints, in its order
ReportSections ==
  <<"header", "summary", "missing", "unexpected", "non_working", "unique_problematic">>

\* nothing printed: sections are the sections on the screen, diagnostic the
\* message printed instead of a report
NoReport ==
  [printed |-> FALSE, raised |-> FALSE, error |-> NoError, diagnostic |-> NoError,
   sections |-> <<>>, per_tab_data |-> <<>>, items |-> <<>>, info_by_url |-> <<>>]

\* as GenerateScreenReport, with the header printed before the manifest is
\* looked for
GenerateScreenReportHeaderFirst(files, file) ==
  IF ~file.exists
  THEN [NoReport EXCEPT !.diagnostic = "Manifest not found", !.sections = <<"header">>]
  ELSE LET loaded == ReporterLoadManifest(file)
       IN  IF loaded.raised
           THEN [NoReport EXCEPT !.raised = TRUE, !.error = loaded.error,
                                 !.sections = <<"header">>]
           ELSE IF file.json # "object"
           THEN [NoReport EXCEPT !.raised = TRUE, !.error = "AttributeError",
                                 !.sections = <<"header">>]
           ELSE [printed |-> TRUE, raised |-> FALSE, error |-> NoError,
                 diagnostic |-> NoError, sections |-> ReportSections,
                 per_tab_data |-> PerTabData(files, ExpectedUrlsByTab(loaded.data)),
                 items |-> ItemsByTab(files),
                 info_by_url |-> CollectUniqueProblematicLinks(AllStatusItems(files))]

\* generate_screen_report: the manifest is looked for, loaded and indexed
\* (manifest.get, which only an object has) before the first section is
\* printed
GenerateScreenReport(files, file) ==
  IF ~file.exists THEN [NoReport EXCEPT !.diagnostic = "Manifest not found"]
  ELSE LET loaded == ReporterLoadManifest(file)
       IN  IF loaded.raised
           THEN [NoReport EXCEPT !.raised = TRUE, !.error = loaded.error]
           ELSE IF file.json # "object"
           THEN [NoReport EXCEPT !.raised = TRUE, !.error = "AttributeError"]
           ELSE [printed |-> TRUE, raised |-> FALSE, error |-> NoError,
                 diagnostic |-> NoError, sections |-> ReportSections,
                 per_tab_data |-> PerTabData(files, ExpectedUrlsByTab(loaded.data)),
                 items |-> ItemsByTab(files),
                 info_by_url |-> CollectUniqueProblematicLinks(AllStatusItems(files))]

\* the Status Records the artifacts of a report are drawn from
ReportRecords ==
  { SuccessRecord(UrlA, 500, "GET"), TerminalRecord(UrlAUpper, "TimeoutError"),
    SuccessRecord(UrlB, 404, "GET"), SuccessRecord(UrlX, 200, "HEAD"),
    TerminalRecord(UrlY, "TimeoutError"), SuccessRecord(<<>>, 404, "HEAD") }

\* the strings of S as manifest entries, in descending order
EntriesOf(S) ==
  [k \in 1..Cardinality(S) |-> Entry("", SortedStrings(S)[Cardinality(S) + 1 - k])]

\* the manifest files a report is drawn from: every set of four URLs as
\* the Recommendations entries, and files that do not load
ReportManifestFiles ==
  { ManifestFile(TRUE, "object",
      [t \in {TabNames[k] : k \in 1..3} |->
         IF t = "Recommendations" THEN EntriesOf(S)
         ELSE IF t = "Dimensions" THEN <<Entry("Policy", UrlB), Entry("", <<>>)>>
         ELSE <<>>]) : S \in SUBSET {UrlA, UrlB, UrlX, UrlY} }
    \cup { ManifestFile(FALSE, "invalid", <<>>), ManifestFile(TRUE, "invalid", <<>>),
           ManifestFile(TRUE, "object", TwoKeyManifest),
           ManifestFile(TRUE, "array", <<>>), ManifestFile(TRUE, "array", TabNames),
           ManifestFile(TRUE, "null", <<>>) }

\* link_status as a report finds it
ReportStatusFiles ==
  { [n \in N |->
       IF n = "recommendations_link_status.json" THEN rec
       ELSE StatusFile("list", <<SuccessRecord(UrlB, 200, "HEAD")>>)] :
      N \in { {"recommendations_link_status.json"},
              {"recommendations_link_status.json", "dimensions_link_status.json"} },
      rec \in {StatusFile("list", items) : items \in SeqsUpTo(ReportRecords, MaxItems)}
               \cup {StatusFile("invalid", <<>>), StatusFile("object", <<>>)} }
    \cup {NoStatusFiles}

ReportInit ==
  /\ manifestFile \in ReportManifestFiles
  /\ statusFiles \in ReportStatusFiles
  /\ statusDir = TRUE
  /\ reportPc = "call"
  /\ report = NoReport

\* generate_screen_report is not called in this scenario
ReportIdle ==
  /\ reportPc = "idle"
  /\ report = NoReport

\* one call of generate_screen_report
GenerateReport ==
  /\ reportPc = "call"
  /\ report' = GenerateScreenReport(statusFiles, manifestFile)
  /\ reportPc' = "done"
  /\ UNCHANGED nonReportVars

\* ------------------------------------------------------------------------
\* links_validator: persisting the batches of the tabs
\* ------------------------------------------------------------------------

\* f with k mapped to v
Put(f, k, v) == [n \in DOMAIN f \cup {k} |-> IF n = k THEN v ELSE f[n]]

\* as StatusFileName, with another suffix than the reporter's table has
StatusFileNameOtherSuffix(tab_key) == tab_key \o "_status.json"

\* the artifact's file name: f"{tab_key}_link_status.json"
StatusFileName(tab_key) == tab_key \o "_link_status.json"

\* str(base / name) for base = "link_status"
OutputPath(name) == "link_status/" \o name

\* what can happen to a write: it succeeds, open() fails and leaves the
\* file as it was, or json.dump fails after open() truncated the file
WriteOutcomes == {"written", "open_fails", "dump_fails"}

\* as SaveStatuses, with a failed write passed over in silence
SaveStatusesSwallowed(files, name, statuses, outcome) ==
  IF outcome = "written"
  THEN [files |-> Put(files, name, StatusFile("list", statuses)), raised |-> FALSE]
  ELSE IF outcome = "open_fails"
  THEN [files |-> files, raised |-> FALSE]
  ELSE [files |-> Put(files, name, StatusFile("invalid", <<>>)), raised |-> FALSE]

\* as SaveStatuses, with the file opened for appending
SaveStatusesAppending(files, name, statuses, outcome) ==
  IF outcome = "written"
  THEN [files |-> Put(files, name,
                      StatusFile("list", LoadStatusItems(files, name) \o statuses)),
        raised |-> FALSE]
  ELSE IF outcome = "open_fails"
  THEN [files |-> files, raised |-> TRUE]
  ELSE [files |-> Put(files, name, StatusFile("invalid", <<>>)), raised |-> TRUE]

\* save_statuses: the files of link_status after it, and whether it raised
SaveStatuses(files, name, statuses, outcome) ==
  IF outcome = "written"
  THEN [files |-> Put(files, name, StatusFile("list", statuses)), raised |-> FALSE]
  ELSE IF outcome = "open_fails"
  THEN [files |-> files, raised |-> TRUE]
  ELSE [files |-> Put(files, name, StatusFile("invalid", <<>>)), raised |-> TRUE]

NoOutputs == [k \in {} |-> ""]

NoBatches == [k \in {} |-> <<>>]

\* check_and_save_link_statuses_by_tab is not called in this scenario
SaveIdle ==
  /\ links_by_tab = <<>>
  /\ savePc = "idle"
  /\ saveIdx = 0
  /\ outputs = NoOutputs
  /\ saveErr = NoError
  /\ batches = NoBatches

\* an artifact left by an earlier run
StaleFile ==
  StatusFile("list", <<SuccessRecord(UrlY, 200, "HEAD"), SuccessRecord(UrlX, 404, "GET")>>)

\* link_status as a run finds it: absent, empty, or with files of an
\* earlier run
StatusDirChoices ==
  { [dir |-> FALSE, files |-> NoStatusFiles],
    [dir |-> TRUE, files |-> NoStatusFiles],
    [dir |-> TRUE, files |-> [n \in {"recommendations_link_status.json"} |-> StaleFile]],
    [dir |-> TRUE,
     files |-> [n \in {"recommendations_link_status.json", "notes.json"} |-> StaleFile]] }

\* the mappings check_and_save_link_statuses_by_tab is called with
LinksByTabChoices ==
  { <<>>,
    <<[key |-> "recommendations", links |-> <<UrlX, UrlXSlash>>]>>,
    <<[key |-> "recommendations", links |-> <<UrlA>>],
      [key |-> "dimensions", links |-> <<UrlB, None, UrlB>>],
      [key |-> "country_profiles", links |-> <<>>]>>,
    <<[key |-> "extra", links |-> <<UrlY, UrlA>>],
      [key |-> "recommendations", links |-> <<UrlB>>]>> }

SaveInit ==
  /\ links_by_tab \in LinksByTabChoices
  /\ \E d \in StatusDirChoices : statusDir = d.dir /\ statusFiles = d.files
  /\ manifestFile = NoManifestFile
  /\ savePc = "call"
  /\ saveIdx = 0
  /\ outputs = NoOutputs
  /\ saveErr = NoError
  /\ batches = NoBatches

\* base.mkdir(parents=True, exist_ok=True): nothing to do for a directory
\* that exists; creating it can fail
SaveMakeDir ==
  /\ savePc = "call"
  /\ \E created \in BOOLEAN :
       IF statusDir \/ created
       THEN /\ statusDir' = TRUE
            /\ savePc' = "loop"
            /\ saveIdx' = 1
            /\ saveErr' = saveErr
       ELSE /\ statusDir' = statusDir
            /\ savePc' = "raised"
            /\ saveIdx' = saveIdx
            /\ saveErr' = "OSError: mkdir"
  /\ outputs' = NoOutputs
  /\ UNCHANGED <<links_by_tab, batches, manifestFile, statusFiles>>
  /\ UNCHANGED <<mainVars, reportVars, nonPipeVars>>

\* one turn of the loop over links_by_tab: the batch of the tab, its
\* artifact, its entry in outputs
SaveTab ==
  /\ savePc = "loop"
  /\ saveIdx <= Len(links_by_tab)
  /\ \E statuses \in CheckLinksStatusResults(links_by_tab[saveIdx].links) :
       \E outcome \in WriteOutcomes :
         LET tab_key == links_by_tab[saveIdx].key
             saved == SaveStatuses(statusFiles, StatusFileName(tab_key), statuses, outcome)
         IN  /\ statusFiles' = saved.files
             /\ batches' = Put(batches, tab_key, statuses)
             /\ saveErr' = IF outcome = "written" THEN saveErr ELSE "OSError: write"
             /\ IF saved.raised
                THEN /\ savePc' = "raised"
                     /\ UNCHANGED <<saveIdx, outputs>>
                ELSE /\ savePc' = "loop"
                     /\ saveIdx' = saveIdx + 1
                     /\ outputs' = Put(outputs, tab_key, OutputPath(StatusFileName(tab_key)))
  /\ UNCHANGED <<links_by_tab, manifestFile, statusDir>>
  /\ UNCHANGED <<mainVars, reportVars, nonPipeVars>>

\* the loop is over: outputs is returned
SaveReturn ==
  /\ savePc = "loop"
  /\ saveIdx > Len(links_by_tab)
  /\ savePc' = "returned"
  /\ UNCHANGED <<links_by_tab, saveIdx, outputs, saveErr, batches>>
  /\ UNCHANGED <<fsVars, mainVars, reportVars, nonPipeVars>>

\* ------------------------------------------------------------------------
\* main and initializer
\* ------------------------------------------------------------------------

TabKeys == <<"recommendations", "dimensions", "country_profiles">>

NoLinks == [k \in {TabKeys[j] : j \in 1..3} |-> <<>>]

\* a name main has not bound yet
Unbound == <<"<unbound>">>

\* main does not run in this scenario
MainIdle ==
  /\ mainPc = "idle"
  /\ retrieved_links = Unbound
  /\ retrieve_links_tab = NoLinks
  /\ cleaned = NoLinks

\* what external_links_extractor returns for the three tabs of a page
RetrievedChoices ==
  { [k \in {TabKeys[j] : j \in 1..3} |->
       IF k = "recommendations" THEN rec ELSE IF k = "dimensions" THEN dim ELSE <<>>] :
      rec \in {<<>>, <<UrlAUpper, UrlY>>, <<UrlA, UrlB>>},
      dim \in {<<>>, <<UrlB, UrlA>>} }

MainInit ==
  /\ mainPc = "initializer"
  /\ retrieved_links = Unbound
  /\ retrieve_links_tab = NoLinks
  /\ cleaned = NoLinks
  /\ manifestFile \in {NoManifestFile, ManifestFile(TRUE, "object", FileManifest),
                        ManifestFile(TRUE, "array", <<>>)}
  /\ \E d \in StatusDirChoices : statusDir = d.dir /\ statusFiles = d.files
  /\ SaveIdle
  /\ reportPc = "idle"
  /\ report = NoReport

\* startup.initializer: os.listdir raises when link_status is missing, and
\* nothing in main catches it; a file whose removal fails stays
Initializer ==
  /\ mainPc = "initializer"
  /\ IF ~statusDir
     THEN mainPc' = "crashed" /\ statusFiles' = statusFiles
     ELSE /\ mainPc' = "visit"
          /\ \E kept \in SUBSET DOMAIN statusFiles :
               statusFiles' = [n \in kept |-> statusFiles[n]]
  /\ UNCHANGED <<retrieved_links, retrieve_links_tab, cleaned, manifestFile, statusDir>>
  /\ UNCHANGED <<saveVars, reportVars, nonPipeVars>>

\* visit_links_tabs: for every tab it could click, the list the extractor
\* returned is appended, as one element, to the tab's list of
\* retrieve_links_tab; the function ends in "pass" and returns None
VisitLinksTabsDict(extracted, clicked) ==
  [k \in DOMAIN NoLinks |->
     IF k \in clicked THEN Append(NoLinks[k], extracted[k]) ELSE NoLinks[k]]

\* main, step 2: retrieved_links = visit_links_tabs(page)
VisitLinksTabs ==
  /\ mainPc = "visit"
  /\ \E extracted \in RetrievedChoices, clicked \in SUBSET DOMAIN NoLinks :
       retrieve_links_tab' = VisitLinksTabsDict(extracted, clicked)
  /\ retrieved_links' = None
  /\ mainPc' = "clean"
  /\ UNCHANGED <<cleaned, fsVars, saveVars, reportVars, nonPipeVars>>

\* clean_links_for_tab with the manifest path main passes
CleanFromPath(ls, tab, file) ==
  LET loaded == ResolveManifest("path", EmptyManifest, file)
  IN  IF loaded.raised THEN LoadFailure(loaded)
      ELSE CleanLinksForTab(ls, tab, loaded.data)

\* main 44-56: the three calls of clean_links_for_tab in one try block,
\* each with retrieved_links.get(key, []); None has no get, and that
\* AttributeError, like an exception of any of the calls, empties the
\* three lists
CleanAll(rl, file) ==
  IF rl = None THEN NoLinks
  ELSE LET calls == [j \in 1..3 |->
                       CleanFromPath(IF TabKeys[j] \in DOMAIN rl THEN rl[TabKeys[j]]
                                     ELSE <<>>,
                                     TabNames[j], file)]
       IN  IF \E j \in 1..3 : calls[j].raised THEN NoLinks
           ELSE [k \in {TabKeys[j] : j \in 1..3} |->
                   calls[CHOOSE j \in 1..3 : TabKeys[j] = k].result]

\* main, step 3
CleanStep ==
  /\ mainPc = "clean"
  /\ cleaned' = CleanAll(retrieved_links, manifestFile)
  /\ mainPc' = "check"
  /\ UNCHANGED <<retrieved_links, retrieve_links_tab, fsVars, saveVars, reportVars, nonPipeVars>>

\* main, step 4: check_and_save_link_statuses_by_tab is called with the
\* three lists
CheckStep ==
  /\ mainPc = "check"
  /\ links_by_tab' = [j \in 1..3 |-> [key |-> TabKeys[j], links |-> cleaned[TabKeys[j]]]]
  /\ savePc' = "call"
  /\ mainPc' = "checking"
  /\ UNCHANGED <<saveIdx, outputs, saveErr, batches>>
  /\ UNCHANGED <<retrieved_links, retrieve_links_tab, cleaned, fsVars, reportVars, nonPipeVars>>

\* main, step 4 ends with the mapping or in the except clause; step 5
\* calls generate_screen_report
ReportStep ==
  /\ mainPc = "checking"
  /\ savePc \in {"returned", "raised"}
  /\ mainPc' = "report"
  /\ reportPc' = "call"
  /\ UNCHANGED <<report, retrieved_links, retrieve_links_tab, cleaned, fsVars, saveVars, nonPipeVars>>

\* generate_screen_report returned or raised into main's except clause
Finish ==
  /\ mainPc = "report"
  /\ reportPc = "done"
  /\ mainPc' = "done"
  /\ UNCHANGED <<retrieved_links, retrieve_links_tab, cleaned, fsVars, saveVars, reportVars, nonPipeVars>>

\* ------------------------------------------------------------------------
\* Specifications
\* ------------------------------------------------------------------------

\* the prober: one call of check_links_status
Init ==
  BatchInit /\ CleanIdle /\ FsIdle /\ NormIdle /\ ReportIdle /\ SaveIdle /\ MainIdle

Next == BatchNext

Spec == Init /\ [][Next]_vars

\* the prober under fair scheduling: threads run, and every request is
\* answered within its timeout
FairSpec ==
  /\ Init
  /\ [][Next]_vars
  /\ WF_vars(Submit)
  /\ WF_vars(\E w \in 1..max_workers : StartProbe(w))
  /\ WF_vars(\E w \in 1..max_workers : HeadReturns(w))
  /\ WF_vars(\E w \in 1..max_workers : GetReturns(w))
  /\ WF_vars(\E i \in 1..Len(deduped) : Collect(i))
  /\ WF_vars(Return)

\* the reconciler: one call of clean_links_for_tab or of
\* clean_links_for_dimensions
CleanSpecInit ==
  /\ CleanInit
  /\ statusDir = FALSE
  /\ statusFiles = NoStatusFiles
  /\ BatchIdle
  /\ NormIdle
  /\ ReportIdle
  /\ SaveIdle
  /\ MainIdle

CleanNext == Clean \/ CleanDimensions

CleanSpec == CleanSpecInit /\ [][CleanNext]_vars

\* the normalizer: one call of _normalize_url on a string, a second call
\* on its result, and a call on a second string
NormSpecInit ==
  NormInit /\ BatchIdle /\ CleanIdle /\ FsIdle /\ ReportIdle /\ SaveIdle /\ MainIdle

NormNext == Normalize

NormSpec == NormSpecInit /\ [][NormNext]_vars

\* the reporter: one call of generate_screen_report
ReportSpecInit ==
  ReportInit /\ BatchIdle /\ CleanIdle /\ NormIdle /\ SaveIdle /\ MainIdle

ReportNext == GenerateReport

ReportSpec == ReportSpecInit /\ [][ReportNext]_vars

\* the persister: one call of check_and_save_link_statuses_by_tab
SaveSpecInit ==
  SaveInit /\ BatchIdle /\ CleanIdle /\ NormIdle /\ ReportIdle /\ MainIdle

SaveNext == SaveMakeDir \/ SaveTab \/ SaveReturn

SaveSpec == SaveSpecInit /\ [][SaveNext]_vars

\* the pipeline: one run of main from initializer to the report
MainSpecInit == MainInit /\ BatchIdle /\ CleanIdle /\ NormIdle

MainNext ==
  \/ Initializer
  \/ VisitLinksTabs
  \/ CleanStep
  \/ CheckStep
  \/ SaveMakeDir
  \/ SaveTab
  \/ SaveReturn
  \/ ReportStep
  \/ GenerateReport
  \/ Finish

MainSpec == MainSpecInit /\ [][MainNext]_vars

\* ------------------------------------------------------------------------
\* Properties of check_link
\* ------------------------------------------------------------------------

Probes == 1..Len(probe)

HeadAnswered(i) == Len(probe[i].outs) >= 1

GetSent(i) == \E k \in 1..Len(probe[i].sent) : probe[i].sent[k] = "GET"

Raised(o) == o.kind = "raise"

Returned(o, codes) == o.kind = "status" /\ o.code \in codes

InRange(s) == 200 <= s /\ s < 400

\* C1: a GET is sent for a link exactly when its HEAD raised (whatever the
\* exception) or returned one of 0, 400, 401, 402, 403, 404, 405.
GetRetryIffHeadFailed ==
  \A i \in Probes :
    HeadAnswered(i) =>
      (GetSent(i) <=> (\/ Raised(probe[i].outs[1])
                       \/ Returned(probe[i].outs[1], {0, 400, 401, 402, 403, 404, 405})))

\* C2: a link is sent one HEAD and at most one GET, two requests at most.
AtMostOneGetPerLink ==
  \A i \in Probes :
    /\ Len(probe[i].sent) <= 2
    /\ Cardinality({k \in 1..Len(probe[i].sent) : probe[i].sent[k] = "HEAD"}) <= 1
    /\ Cardinality({k \in 1..Len(probe[i].sent) : probe[i].sent[k] = "GET"}) <= 1

BothRaised(i) ==
  /\ probe[i].stage = "done"
  /\ Len(probe[i].outs) >= 2
  /\ Raised(probe[i].outs[1])
  /\ Raised(probe[i].outs[2])

\* C3: when the HEAD and the fallback GET both raised, the record has no
\* status code, ok false, method HEAD and the error of the failed GET.
BothRaiseIsTerminalFailed ==
  \A i \in Probes :
    BothRaised(i) =>
      /\ probe[i].rec.url = deduped[i]
      /\ probe[i].rec.status_code = NoStatus
      /\ probe[i].rec.ok = FALSE
      /\ probe[i].rec.method_used = "HEAD"
      /\ probe[i].rec.error # NoError
      /\ probe[i].rec.error = probe[i].outs[2].exc

BothRaisedReached == \E i \in Probes : BothRaised(i)

HeadFallbackGetStatus(i) ==
  /\ probe[i].stage = "done"
  /\ Len(probe[i].outs) = 2
  /\ Returned(probe[i].outs[1], {0, 400, 401, 402, 403, 404, 405})
  /\ probe[i].outs[2].kind = "status"

HeadFinalStatus(i) ==
  /\ probe[i].stage = "done"
  /\ probe[i].outs[1].kind = "status"
  /\ probe[i].outs[1].code \notin {0, 400, 401, 402, 403, 404, 405}

DistinctLinks == {links[k] : k \in 1..Len(links)} \ {None, <<>>}

RecordsOf(u) == {k \in 1..Len(results) : results[k].url = u}

OneRecordPerLink ==
  /\ \A u \in DistinctLinks : Cardinality(RecordsOf(u)) = 1
  /\ Len(results) = Cardinality(DistinctLinks)

\* C5: no request outcome makes check_links_status raise; it returns one
\* Status Record for each distinct non-empty input link.
BatchNeverRaises ==
  /\ pc # "raised"
  /\ pc = "returned" => OneRecordPerLink

\* a batch of two links returned although both requests of one link raised
FailedLinkReturned ==
  /\ pc = "returned"
  /\ Len(results) = 2
  /\ \E i \in Probes :
       /\ BothRaised(i)
       /\ \E k \in 1..Len(results) :
            results[k].url = deduped[i] /\ results[k].status_code = NoStatus

Started(i) == probe[i].sent # <<>>

\* C6: two input strings with the same normalized form cause one probe.
NormalizedDuplicateProbedOnce ==
  \A i \in Probes : \A j \in Probes :
    (Started(i) /\ Started(j) /\ NormalizeUrl(deduped[i]) = NormalizeUrl(deduped[j]))
      => i = j

\* what the report shows for a tab whose artifact holds items
ReportOf(items, expected_set) ==
  [tab |-> AggregateTab(items, expected_set),
   problems |-> CollectUniqueProblematicLinks(items)]

ExpectedSets ==
  {{}, {NormalizeUrl(UrlX)}, {NormalizeUrl(UrlX), NormalizeUrl(UrlY)}}

\* C7: whatever the completion order, the batch returns one record per
\* deduplicated link, and the counts, the missing and unexpected lists and
\* the problem-link table reported from it are the same.
ReportIndependentOfCompletionOrder ==
  pc = "returned" =>
    /\ Len(results) = Len(deduped)
    /\ {results[k].url : k \in 1..Len(results)} = {deduped[k] : k \in 1..Len(deduped)}
    /\ \A other \in CompletionOrders(results) : \A e \in ExpectedSets :
         ReportOf(other, e) = ReportOf(results, e)

Busy == {w \in DOMAIN worker : worker[w] # 0}

Running == {i \in Probes : probe[i].stage \in {"head", "get", "get_fallback"}}

\* C8: at most max_workers probes are in flight, and a worker has at most
\* one request outstanding.
PoolIsBounded ==
  /\ Cardinality(Running) <= max_workers
  /\ Cardinality(inflight) <= max_workers
  /\ \A w \in DOMAIN worker : Cardinality({r \in inflight : r.w = w}) <= 1
  /\ \A i \in Running : Cardinality({r \in inflight : r.i = i}) = 1

\* every worker is busy and a submitted link waits for one
PoolFullReached ==
  /\ Cardinality(inflight) = max_workers
  /\ Busy = DOMAIN worker
  /\ queue # <<>>

AllRequestsRaised(i) ==
  /\ probe[i].outs # <<>>
  /\ \A k \in 1..Len(probe[i].outs) : Raised(probe[i].outs[k])

\* the batch returned a record for every link, a failed one for every link
\* whose requests all ran into their timeout or another transport error
BatchComplete ==
  /\ pc = "returned"
  /\ OneRecordPerLink
  /\ \A i \in Probes :
       AllRequestsRaised(i) =>
         \A k \in RecordsOf(deduped[i]) :
           results[k].status_code = NoStatus /\ results[k].ok = FALSE

\* C9: when every request returns or raises within its timeout, the batch
\* terminates with a record for every link, a failed record for a link that
\* timed out.
BatchTerminatesWithRecords == <>BatchComplete

\* with two workers, the first link ran into its timeout and failed, the
\* second link was probed and collected before it, and the batch returned
SlowProbeOvertaken ==
  /\ BatchComplete
  /\ max_workers = 2
  /\ Len(deduped) = 2
  /\ probe[1].outs = <<Request(TimeoutError)>>
  /\ results[1].url = deduped[2]
  /\ results[1].status_code = 200
  /\ results[2].url = deduped[1]
  /\ results[2].status_code = NoStatus

\* ------------------------------------------------------------------------
\* Properties of clean_links_for_tab
\* ------------------------------------------------------------------------

\* the positions of raw whose link is allowed for the tab and whose
\* normalized form did not occur at an earlier position
FirstAllowed(allowed) ==
  {k \in 1..Len(raw) :
     /\ raw[k] # None
     /\ raw[k] # <<>>
     /\ NormalizeUrl(raw[k]) \in allowed
     /\ \A j \in 1..(k - 1) :
          raw[j] = None \/ NormalizeUrl(raw[j]) # NormalizeUrl(raw[k])}

\* the n-th smallest member of a set of positions
NthOf(S, n) == CHOOSE k \in S : Cardinality({j \in S : j <= k}) = n

\* the links of raw at the positions S, in input order
LinksAt(S) == [n \in 1..Cardinality(S) |-> raw[NthOf(S, n)]]

ValidTab == tab_name \in {"Recommendations", "Dimensions", "Country profiles"}

\* the manifest argument is a dict, or the path of a file that holds a
\* JSON object with the three tab keys
ManifestLoads ==
  \/ manifest_or_path = "dict"
  \/ /\ manifestFile.exists
     /\ manifestFile.json = "object"
     /\ \A k \in 1..3 : TabNames[k] \in DOMAIN manifestFile.data

\* the manifest the call works with when ManifestLoads
LoadedManifest == IF manifest_or_path = "dict" THEN manifest ELSE manifestFile.data

\* C10: clean_links_for_tab returns the retrieved strings whose normalized
\* form is allowed for the tab, in input order, without None and empty
\* entries, one per normalized form: the string of its first occurrence.
CleanKeepsFirstAllowed ==
  (cleanPc = "done" /\ ValidTab /\ ManifestLoads) =>
    /\ ~cleanOut.raised
    /\ cleanOut.result = LinksAt(FirstAllowed(TabIndex(LoadedManifest)[tab_name]))

\* the raw list [a, None, a, b] with a and b allowed gives [a, b]
CleanExampleReached ==
  /\ cleanPc = "done"
  /\ tab_name = "Recommendations"
  /\ raw = <<UrlA, None, UrlA, UrlB>>
  /\ manifest_or_path = "dict"
  /\ TabIndex(manifest)[tab_name] = {NormalizeUrl(UrlA), NormalizeUrl(UrlB)}
  /\ cleanOut.result = <<UrlA, UrlB>>

\* the error a call raises for its manifest argument, NoError when the
\* manifest loads
LoadError ==
  IF ManifestLoads THEN NoError
  ELSE IF ~manifestFile.exists THEN "FileNotFoundError"
  ELSE IF manifestFile.json = "invalid" THEN "JSONDecodeError"
  ELSE IF manifestFile.json = "array" THEN "ValueError: Manifest must be a JSON object"
  ELSE "ValueError: Manifest missing required key"

\* C11 as stated: with a tab_name that is not one of the three tabs,
\* clean_links_for_tab raises the invalid-tab error and returns no list,
\* for any raw list and any manifest argument.
InvalidTabAlwaysInvalidTabError ==
  (cleanPc = "done" /\ ~ValidTab) =>
    /\ cleanOut.raised
    /\ cleanOut.error = "ValueError: Invalid tab_name"
    /\ cleanOut.result = <<>>

\* C11, amended: with a tab_name that is not one of the three tabs,
\* clean_links_for_tab raises and returns no list, for any raw list and any
\* manifest argument; the error is the invalid-tab error when the manifest
\* is a dict or a path that loads, and the loader's error otherwise.
InvalidTabRaises ==
  (cleanPc = "done" /\ ~ValidTab) =>
    /\ cleanOut.raised
    /\ cleanOut.result = <<>>
    /\ cleanOut.error =
         IF ManifestLoads THEN "ValueError: Invalid tab_name" ELSE LoadError

\* an unknown tab with a raw list of links the manifest allows for a tab
InvalidTabReached ==
  /\ cleanPc = "done"
  /\ tab_name = "Other"
  /\ manifest_or_path = "dict"
  /\ raw = <<UrlA, UrlB>>
  /\ TabIndex(manifest)["Recommendations"] = {NormalizeUrl(UrlA), NormalizeUrl(UrlB)}
  /\ cleanOut.raised
  /\ cleanOut.error = "ValueError: Invalid tab_name"

\* the level's allowed set, empty for a level without Dimensions entries
AllowedForLevel ==
  IF level \in DOMAIN LevelIndex(LoadedManifest)
  THEN LevelIndex(LoadedManifest)[level] ELSE {}

\* the normalized URLs of the Dimensions entries that carry the level
DimensionsUrlsOfLevel ==
  LET entries == ManifestGet(LoadedManifest, "Dimensions")
  IN  {NormalizeUrl(entries[k].url) :
         k \in {j \in 1..Len(entries) :
                  entries[j].level = level /\ ~Falsy(entries[j].url)}}

\* C12: clean_links_for_dimensions returns the retrieved strings whose
\* normalized form is that of a Dimensions entry carrying the level, in
\* input order, without None and empty entries, one per normalized form;
\* a level that does not occur in the manifest gives an empty list, never
\* an error.
DimensionsKeepsFirstOfLevel ==
  (cleanPc = "done_dimensions" /\ ManifestLoads) =>
    /\ ~cleanOut.raised
    /\ cleanOut.result = LinksAt(FirstAllowed(DimensionsUrlsOfLevel))
    /\ level \notin DOMAIN LevelIndex(LoadedManifest) => cleanOut.result = <<>>

\* the level "Portal" kept its link once, as first retrieved, and dropped
\* the link of another level
DimensionsLevelReached ==
  /\ cleanPc = "done_dimensions"
  /\ manifest_or_path = "dict"
  /\ level = "Portal"
  /\ "Portal" \in DOMAIN LevelIndex(manifest)
  /\ LevelIndex(manifest)["Portal"] = {NormalizeUrl(UrlB)}
  /\ raw = <<UrlB, None, UrlA, UrlB>>
  /\ ~cleanOut.raised
  /\ cleanOut.result = <<UrlB>>

\* ------------------------------------------------------------------------
\* Properties of _normalize_url
\* ------------------------------------------------------------------------

\* C13: normalizing a normalized string changes nothing, for every input
\* string and for None, in links_cleaner and in reporter.
NormalizeIdempotent ==
  normPc = "done" =>
    /\ normOut.cleaner_twice = normOut.cleaner
    /\ normOut.reporter_twice = normOut.reporter

\* url_x has no surrounding space and is neither None nor empty
Trimmed == url_x # None /\ url_x # <<>> /\ Strip(url_x) = url_x

\* the path with one trailing "/" removed, unless it is "/" or has none
OneSlashStripped(path) ==
  IF path # <<>> /\ path[Len(path)] = "/" /\ path # <<"/">>
  THEN SubSeq(path, 1, Len(path) - 1)
  ELSE path

\* C14: normalization removes exactly one trailing "/" of the path, so
\* that a path ending in "//" keeps one slash, and keeps the path "/".
StripsExactlyOneTrailingSlash ==
  (normPc = "done" /\ Trimmed) =>
    LET parts == UrlSplit(url_x)
    IN  normOut.cleaner =
          UrlUnsplit(Lower(parts.scheme), Lower(parts.netloc),
                     OneSlashStripped(parts.path), parts.query, parts.fragment)

\* what C15 expects of a URL written from the components p
ExpectedNormalized(p) ==
  BuildUrl([scheme |-> Lower(p.scheme), host |-> Lower(p.host),
            path |-> OneSlashStripped(p.path), query |-> p.query,
            fragment |-> p.fragment])

\* C15: only the scheme and the host are lower-cased: two URLs that differ
\* in the case of scheme or host alone normalize to the same string, two
\* that differ in the case of path, query or fragment normalize to
\* different strings, and query and fragment come out as they went in.
LowerCasesSchemeAndHostOnly ==
  (normPc = "done" /\ parts_x # NoParts) =>
    /\ normOut.cleaner = ExpectedNormalized(parts_x)
    /\ (/\ parts_x.path = parts_y.path
        /\ parts_x.query = parts_y.query
        /\ parts_x.fragment = parts_y.fragment) <=> (normOut.cleaner = normOut.other)

\* two URLs that differ in the case of scheme and host gave one string
\* with path, query and fragment in their upper case, and a third that
\* differs from the first in the case of the path gave another
CaseVariantsReached ==
  /\ normPc = "done"
  /\ parts_x.scheme = <<"H", "T", "T", "P">>
  /\ parts_x.host = <<"A", "b">>
  /\ parts_y.scheme = <<"h", "t", "t", "p">>
  /\ parts_y.host = <<"a", "b">>
  /\ parts_x.path = <<"/", "P">>
  /\ parts_x.query = <<"Q">>
  /\ parts_x.fragment = <<"F">>
  /\ parts_y.path = parts_x.path
  /\ parts_y.query = parts_x.query
  /\ parts_y.fragment = parts_x.fragment
  /\ normOut.cleaner = normOut.other
  /\ normOut.cleaner
       = <<"h", "t", "t", "p", ":", "/", "/", "a", "b", "/", "P", "?", "Q", "#", "F">>

\* ------------------------------------------------------------------------
\* Properties of the report
\* ------------------------------------------------------------------------

\* the normalized URLs of the manifest file's entries for a tab
ExpectedOf(tab) ==
  LET entries == manifestFile.data[tab]
  IN  {ReporterNormalizeUrl(entries[k].url) :
         k \in {j \in 1..Len(entries) : entries[j].url # <<>>}}

\* the normalized URLs of the records in the tab's artifact
RetrievedOf(tab) ==
  LET name == TAB_TO_STATUS_FILE[tab]
      items == IF name \in DOMAIN statusFiles /\ statusFiles[name].json = "list"
               THEN statusFiles[name].items ELSE <<>>
  IN  {ReporterNormalizeUrl(items[k].url) :
         k \in {j \in 1..Len(items) : items[j].url # <<>>}}

\* list holds the members of S, each once, in ascending order
AscendingListOf(list, S) ==
  /\ {list[k] : k \in 1..Len(list)} = S
  /\ \A k \in 1..(Len(list) - 1) : StrLess(list[k], list[k + 1])

\* C17: for every tab the report shows missing = expected - retrieved and
\* unexpected = retrieved - expected over normalized URLs, expected from
\* the manifest and retrieved from the tab's Status Records, each list in
\* ascending lexicographic order.
MissingAndUnexpectedAreDifferences ==
  (reportPc = "done" /\ report.printed) =>
    \A k \in 1..3 :
      LET tab == TabNames[k]
      IN  /\ AscendingListOf(report.per_tab_data[tab].missing,
                             ExpectedOf(tab) \ RetrievedOf(tab))
          /\ AscendingListOf(report.per_tab_data[tab].unexpected,
                             RetrievedOf(tab) \ ExpectedOf(tab))

\* expected {A, B, X} and retrieved {B, X, Y}: missing is [A] and
\* unexpected is [Y]
DifferencesReached ==
  /\ reportPc = "done"
  /\ report.printed
  /\ ExpectedOf("Recommendations")
       = {NormalizeUrl(UrlA), NormalizeUrl(UrlB), NormalizeUrl(UrlX)}
  /\ RetrievedOf("Recommendations")
       = {NormalizeUrl(UrlB), NormalizeUrl(UrlX), NormalizeUrl(UrlY)}
  /\ report.per_tab_data["Recommendations"].missing = <<NormalizeUrl(UrlA)>>
  /\ report.per_tab_data["Recommendations"].unexpected = <<NormalizeUrl(UrlY)>>

\* ------------------------------------------------------------------------
\* Properties of the pipeline
\* ------------------------------------------------------------------------

\* the URLs of a list of Status Records
UrlsOf(items) == {items[k].url : k \in 1..Len(items)}

\* the artifact of tab_key holds the statuses of its batch in this call
ArtifactIsBatch(tab_key) ==
  /\ tab_key \in DOMAIN batches
  /\ StatusFileName(tab_key) \in DOMAIN statusFiles
  /\ statusFiles[StatusFileName(tab_key)] = StatusFile("list", batches[tab_key])

\* C16: with the manifest Recommendations = [http://a/p] and the raw
\* Recommendations links [" HTTP://A/p/", "h://y"], a run that persists and
\* reports reconciles to [" HTTP://A/p/"] and reports "h://y" as
\* unexpected and nothing as missing.
EndToEndReportsUnexpected ==
  (/\ mainPc = "done"
   /\ manifestFile = ManifestFile(TRUE, "object", FileManifest)
   /\ retrieve_links_tab["recommendations"] = <<<<UrlAUpper, UrlY>>>>
   /\ savePc = "returned"
   /\ report.printed) =>
    /\ cleaned["recommendations"] = <<UrlAUpper>>
    /\ report.per_tab_data["Recommendations"].missing = <<>>
    /\ report.per_tab_data["Recommendations"].unexpected = <<NormalizeUrl(UrlY)>>

\* C18: when writing the artifact of one tab fails in a run of main, the
\* other tabs are still probed and persisted with their own links.
TabFailureLeavesOtherTabs ==
  (mainPc = "done" /\ savePc = "raised" /\ saveErr = "OSError: write") =>
    \A j \in 1..3 :
      j # saveIdx =>
        /\ ArtifactIsBatch(TabKeys[j])
        /\ UrlsOf(batches[TabKeys[j]]) = UrlsOf(Dedupe(cleaned[TabKeys[j]]))

\* the keys of links_by_tab
SaveKeys == {links_by_tab[i].key : i \in 1..Len(links_by_tab)}

\* C19: a failure to create the output directory or to write an artifact
\* makes check_and_save_link_statuses_by_tab raise; when it returns, every
\* path of the mapping names an artifact that was written in this call.
SaveFailurePropagates ==
  /\ saveErr # NoError => savePc \in {"raised"}
  /\ savePc = "returned" =>
       \A k \in DOMAIN outputs :
         /\ outputs[k] = OutputPath(StatusFileName(k))
         /\ StatusFileName(k) \in DOMAIN statusFiles
         /\ statusFiles[StatusFileName(k)].json = "list"

\* the write of the second tab's artifact failed after the first tab's was
\* written: the call raised
SecondWriteFailedReached ==
  /\ savePc = "raised"
  /\ saveErr = "OSError: write"
  /\ saveIdx = 2
  /\ DOMAIN outputs = {links_by_tab[1].key}
  /\ mainPc = "idle"

\* what C20 says of the state check_and_save_link_statuses_by_tab returns in
ArtifactsAreBatches ==
  savePc = "returned" =>
    /\ DOMAIN outputs = SaveKeys
    /\ \A i \in 1..Len(links_by_tab) :
         LET tab_key == links_by_tab[i].key
         IN  /\ ArtifactIsBatch(tab_key)
             /\ batches[tab_key] \in CheckLinksStatusResults(links_by_tab[i].links)
             /\ outputs[tab_key] = OutputPath(StatusFileName(tab_key))
             /\ \A j \in 1..Len(links_by_tab) :
                  j # i => StatusFileName(links_by_tab[j].key) # StatusFileName(tab_key)

\* what C20 says of a step of the loop: every file but the artifact of the
\* tab at hand is as it was
OtherArtifactsUntouched ==
  savePc = "loop" /\ saveIdx <= Len(links_by_tab) =>
    /\ DOMAIN statusFiles' \subseteq
         DOMAIN statusFiles \cup {StatusFileName(links_by_tab[saveIdx].key)}
    /\ \A n \in DOMAIN statusFiles :
         n # StatusFileName(links_by_tab[saveIdx].key) =>
           n \in DOMAIN statusFiles' /\ statusFiles'[n] = statusFiles[n]

\* C20: when check_and_save_link_statuses_by_tab returns, every tab key has
\* one artifact whose content is the Status Records of that tab's batch in
\* this call, earlier content gone, and the mapping gives every key the
\* path of its artifact; writing a tab's artifact leaves every other file
\* as it was.
ArtifactsReplacedPerTab == []ArtifactsAreBatches /\ [][OtherArtifactsUntouched]_vars

\* the call returned for two tabs; the artifact an earlier run had left for
\* recommendations holds this call's batch and the file that belongs to
\* no tab is as it was
StaleArtifactReplaced ==
  /\ savePc = "returned"
  /\ mainPc = "idle"
  /\ Len(links_by_tab) = 2
  /\ "notes.json" \in DOMAIN statusFiles
  /\ statusFiles["notes.json"] = StaleFile
  /\ statusFiles["recommendations_link_status.json"]
       = StatusFile("list", batches["recommendations"])
  /\ UrlsOf(batches["recommendations"]) = {UrlB}
  /\ DOMAIN outputs = {"extra", "recommendations"}

\* ------------------------------------------------------------------------
\* Properties of main's steps
\* ------------------------------------------------------------------------

\* main is past the call of visit_links_tabs
Visited == mainPc \in {"clean", "check", "checking", "report", "done"}

\* C25: what main receives from visit_links_tabs is a mapping from each of
\* the three tab keys to the flat sequence of URL strings extracted from
\* that tab (empty for a tab not visited), and the reconciled lists are
\* clean_links_for_tab's results for these lists.
VisitReturnsLinksByTab ==
  Visited =>
    /\ retrieved_links # None
    /\ DOMAIN retrieved_links = {TabKeys[j] : j \in 1..3}
    /\ \A k \in DOMAIN retrieved_links :
         retrieve_links_tab[k] \in {<<>>, <<retrieved_links[k]>>}
    /\ mainPc \in {"check", "checking", "report", "done"} =>
         \A j \in 1..3 :
           LET call == CleanFromPath(retrieved_links[TabKeys[j]], TabNames[j], manifestFile)
           IN  ~call.raised => cleaned[TabKeys[j]] = call.result

\* ------------------------------------------------------------------------
\* Properties of the report's sections, figures and problem table
\* ------------------------------------------------------------------------

\* C21: a report asked for without a manifest file stops with the
\* diagnostic and prints none of the six sections, and a manifest that
\* fails to load is rejected with its error before any section is printed;
\* a report that prints a section prints all six.
NoSectionWithoutManifest ==
  reportPc = "done" =>
    /\ ~manifestFile.exists =>
         /\ report.sections = <<>>
         /\ report.diagnostic = "Manifest not found"
         /\ ~report.raised
    /\ (manifestFile.exists /\ ReporterLoadManifest(manifestFile).raised) =>
         /\ report.sections = <<>>
         /\ report.raised
         /\ report.error = ReporterLoadManifest(manifestFile).error
    /\ report.sections \in {<<>>, ReportSections}

\* link_status holds records and the manifest file is missing: the
\* diagnostic and nothing else
MissingManifestStopsReport ==
  /\ reportPc = "done"
  /\ ~manifestFile.exists
  /\ "recommendations_link_status.json" \in DOMAIN statusFiles
  /\ Len(LoadStatusItems(statusFiles, "recommendations_link_status.json")) = 2
  /\ report.diagnostic = "Manifest not found"
  /\ report.sections = <<>>

\* the records of the tab's artifact, none when the file is missing or is
\* not a list
ArtifactRecords(tab) ==
  LET name == TAB_TO_STATUS_FILE[tab]
  IN  IF name \in DOMAIN statusFiles /\ statusFiles[name].json = "list"
      THEN statusFiles[name].items ELSE <<>>

\* the positions of the records of the tab with status code 200
OkPositions(tab) ==
  {k \in 1..Len(ArtifactRecords(tab)) : ArtifactRecords(tab)[k].status_code = 200}

\* C22: for every tab, the expected count is the number of distinct
\* normalized manifest URLs, the retrieved count the number of distinct
\* normalized URLs of the tab's records, the 200-count the number of
\* records with status code 200, the non-200 count the number of all other
\* records (those without status code included), and the percentage is
\* 200-count / records * 100, or 0 for a tab without records.
PerTabFigures ==
  (reportPc = "done" /\ report.printed) =>
    \A k \in 1..3 :
      LET tab == TabNames[k]
          d == report.per_tab_data[tab]
          n == Len(ArtifactRecords(tab))
      IN  /\ d.expected_count = Cardinality(ExpectedOf(tab))
          /\ d.retrieved_count = Cardinality(RetrievedOf(tab))
          /\ d.ok_200 = Cardinality(OkPositions(tab))
          /\ d.nok = n - Cardinality(OkPositions(tab))
          /\ d.nok >= Cardinality({i \in 1..n : ArtifactRecords(tab)[i].status_code = NoStatus})
          /\ n > 0 => d.ok_pct[1] = d.ok_200 * 100 /\ d.ok_pct[2] = n
          /\ n = 0 => d.ok_pct[1] = 0

\* Recommendations has a 200, a 404 and a record without status code: one
\* of three records is a 200; Dimensions has no artifact and shows 0
FiguresReached ==
  /\ reportPc = "done"
  /\ report.printed
  /\ ArtifactRecords("Recommendations")
       = <<SuccessRecord(UrlX, 200, "HEAD"), SuccessRecord(UrlB, 404, "GET"),
           TerminalRecord(UrlY, "TimeoutError")>>
  /\ report.per_tab_data["Recommendations"].ok_200 = 1
  /\ report.per_tab_data["Recommendations"].nok = 2
  /\ report.per_tab_data["Recommendations"].ok_pct = <<100, 3>>
  /\ report.per_tab_data["Recommendations"].retrieved_count = 3
  /\ "dimensions_link_status.json" \notin DOMAIN statusFiles
  /\ report.per_tab_data["Dimensions"].ok_pct[1] = 0
  /\ report.per_tab_data["Dimensions"].retrieved_count = 0

\* the records of the three artifacts in the order the report reads them
AllRecords ==
  ArtifactRecords(TabNames[1]) \o ArtifactRecords(TabNames[2]) \o ArtifactRecords(TabNames[3])

\* the positions of the records of the normalized URL n that are not a 200
ProblemPositions(n) ==
  {k \in 1..Len(AllRecords) :
     /\ AllRecords[k].status_code # 200
     /\ AllRecords[k].url # <<>>
     /\ ReporterNormalizeUrl(AllRecords[k].url) = n}

\* the least member of a non-empty set of positions
First(ks) == CHOOSE k \in ks : \A j \in ks : k <= j

\* the value of field at the first of the positions ks where it is not the
\* missing value, the missing value when there is none
FirstPresent(ks, field, missing) ==
  LET present == {k \in ks : AllRecords[k][field] # missing}
  IN  IF present = {} THEN missing ELSE AllRecords[First(present)][field]

\* C23: the problem table has one entry for every normalized URL with a
\* record that is not a 200, in any tab, and no other entry; the entry shows
\* the URL as its first such record spells it, and for status code, method
\* and error the value of the first such record that has one, so a later
\* record fills a field that is still missing and never replaces one that
\* is there.
OneProblemEntryPerUrl ==
  (reportPc = "done" /\ report.printed) =>
    /\ DOMAIN report.info_by_url
         = {ReporterNormalizeUrl(AllRecords[k].url) :
              k \in {j \in 1..Len(AllRecords) :
                       AllRecords[j].status_code # 200 /\ AllRecords[j].url # <<>>}}
    /\ \A n \in DOMAIN report.info_by_url :
         LET entry == report.info_by_url[n]
             ks == ProblemPositions(n)
         IN  /\ entry.display_url = AllRecords[First(ks)].url
             /\ entry.status_code = FirstPresent(ks, "status_code", NoStatus)
             /\ entry.method = FirstPresent(ks, "method_used", NoMethod)
             /\ entry.error = FirstPresent(ks, "error", NoError)

\* a URL whose first record has no status code and whose second record, in
\* another spelling, is a 500 by GET: the entry shows the first spelling,
\* HEAD and the timeout of the first record and the 500 of the second
ProblemEntryFilled ==
  /\ reportPc = "done"
  /\ report.printed
  /\ ArtifactRecords("Recommendations")
       = <<TerminalRecord(UrlAUpper, "TimeoutError"), SuccessRecord(UrlA, 500, "GET"),
           SuccessRecord(UrlB, 404, "GET")>>
  /\ DOMAIN report.info_by_url = {NormalizeUrl(UrlA), NormalizeUrl(UrlB)}
  /\ report.info_by_url[NormalizeUrl(UrlA)]
       = [status_code |-> 500, method |-> "HEAD", error |-> "TimeoutError",
          display_url |-> UrlAUpper]

\* the errors that say the manifest's format is wrong
ManifestFormatErrors ==
  {"ValueError: Manifest must be a JSON object", "ValueError: Manifest missing required key"}

\* C24: for a manifest file that parses, the cleaner's loader and the
\* reporter's loader both fail with a manifest-format error exactly when
\* the document is not an object or lacks one of the three tab keys, and
\* both return the document as it is otherwise.
LoadersAgreeOnManifest ==
  (reportPc = "done" /\ manifestFile.exists /\ manifestFile.json # "invalid") =>
    LET cleaner == LoadManifestFromPath(manifestFile)
        reporter == ReporterLoadManifest(manifestFile)
        malformed == \/ manifestFile.json # "object"
                     \/ \E k \in 1..3 : TabNames[k] \notin DOMAIN manifestFile.data
    IN  /\ cleaner.raised <=> malformed
        /\ reporter.raised <=> malformed
        /\ malformed =>
             /\ cleaner.error \in ManifestFormatErrors
             /\ reporter.error \in ManifestFormatErrors
             /\ report.raised /\ report.error = reporter.error
        /\ ~malformed =>
             /\ cleaner.data = manifestFile.data
             /\ reporter.data = manifestFile.data

\* ------------------------------------------------------------------------
\* Properties of the Status Records of a batch
\* ------------------------------------------------------------------------

\* C27: every Status Record of a batch has no status code exactly when it
\* has an error, is ok only with a status code from 200 to 399, names HEAD
\* or GET as its method, names GET only when a GET was sent for its link,
\* and carries the link it was produced for as its url.
RecordsWellFormed ==
  \A k \in 1..Len(results) :
    LET r == results[k]
    IN  /\ (r.status_code = NoStatus) <=> (r.error # NoError)
        /\ r.ok => (200 <= r.status_code /\ r.status_code <= 399)
        /\ r.method_used \in {"HEAD", "GET"}
        /\ \E i \in Probes :
             /\ deduped[i] = r.url
             /\ probe[i].collected
             /\ r.method_used = "GET" => GetSent(i)

\* ------------------------------------------------------------------------
\* Properties of the duplicated normalizer and index
\* ------------------------------------------------------------------------

\* the manifests the two indexes are compared on
IndexedManifests == ManifestChoices \cup {EmptyManifest, TwoKeyManifest, FileManifest}

\* C28: the reporter's _normalize_url returns what the cleaner's returns
\* for every input, the reporter's expected-URL mapping is the cleaner's tab
\* index for every manifest (the same three keys, the same sets), and so a
\* link the cleaner keeps for a tab is in the reporter's expected set of
\* that tab, never reported as unexpected.
DuplicatesAgree ==
  normPc = "done" =>
    /\ normOut.reporter = normOut.cleaner
    /\ normOut.reporter_twice = normOut.cleaner_twice
    /\ \A m \in IndexedManifests :
         LET tab_index == TabIndex(m)
             expected_by_tab == ExpectedUrlsByTab(m)
         IN  /\ DOMAIN expected_by_tab = DOMAIN tab_index
             /\ \A tab \in DOMAIN tab_index :
                  /\ expected_by_tab[tab] = tab_index[tab]
                  /\ normOut.cleaner \in tab_index[tab]
                       => normOut.reporter \in expected_by_tab[tab]

\* " HTTP://A/p/" is kept by the cleaner for Recommendations of the
\* manifest with http://a/p, and the reporter expects it there
KeptLinkExpected ==
  /\ normPc = "done"
  /\ url_x = UrlAUpper
  /\ normOut.cleaner \in TabIndex(FileManifest)["Recommendations"]
  /\ normOut.reporter \in ExpectedUrlsByTab(FileManifest)["Recommendations"]
  /\ normOut.reporter \notin ExpectedUrlsByTab(FileManifest)["Country profiles"]

\* ------------------------------------------------------------------------
\* Properties of the artifacts between the persister and the reporter
\* ------------------------------------------------------------------------

\* C29: for each of the three tab keys the artifact the persister writes is
\* the file the reporter reads for the tab of that key, so when
\* check_and_save_link_statuses_by_tab has returned, the records the
\* reporter loads for a tab are the records probed for the tab's key.
ReporterReadsWrittenArtifacts ==
  /\ \A j \in 1..3 : StatusFileName(TabKeys[j]) = TAB_TO_STATUS_FILE[TabNames[j]]
  /\ savePc = "returned" =>
       \A j \in 1..3 :
         TabKeys[j] \in SaveKeys =>
           /\ outputs[TabKeys[j]] = OutputPath(TAB_TO_STATUS_FILE[TabNames[j]])
           /\ ItemsByTab(statusFiles)[TabNames[j]] = batches[TabKeys[j]]

\* the three tabs were probed and persisted: the reporter loads the record
\* of http://a/p for Recommendations and the record of http://b for
\* Dimensions
ProbedRecordsLoaded ==
  /\ savePc = "returned"
  /\ SaveKeys = {TabKeys[j] : j \in 1..3}
  /\ UrlsOf(ItemsByTab(statusFiles)["Recommendations"]) = {UrlA}
  /\ UrlsOf(ItemsByTab(statusFiles)["Dimensions"]) = {UrlB}
  /\ ItemsByTab(statusFiles)["Dimensions"] = batches["dimensions"]
  /\ ItemsByTab(statusFiles)["Country profiles"] = <<>>

\* ------------------------------------------------------------------------
\* Properties of the artifacts a run of main leaves and reports
\* ------------------------------------------------------------------------

\* the manifest's normalized URLs for the tab, none when the manifest file
\* does not load
ManifestUrls(tab) ==
  LET loaded == LoadManifestFromPath(manifestFile)
  IN  IF loaded.raised THEN {} ELSE TabIndex(loaded.data)[tab]

\* C26: when main has run, every Status Record in the artifact of a tab has
\* a url whose normalized form is in the manifest's set for that tab, and
\* no two records of one artifact have the same normalized url.
PersistedRecordsAreManifestLinks ==
  mainPc = "done" =>
    \A j \in 1..3 :
      LET items == ArtifactRecords(TabNames[j])
      IN  /\ \A k \in 1..Len(items) :
               NormalizeUrl(items[k].url) \in ManifestUrls(TabNames[j])
          /\ \A a, b \in 1..Len(items) :
               a # b => NormalizeUrl(items[a].url) # NormalizeUrl(items[b].url)

\* C30: the report main prints shows, for every tab, the records this run
\* probed and wrote for it, and no record for a tab this run did not
\* write: what an earlier run left in link_status is never reported.
ReportShowsThisRunOnly ==
  (mainPc = "done" /\ report.printed) =>
    \A j \in 1..3 :
      report.items[TabNames[j]]
        = IF TabKeys[j] \in DOMAIN outputs THEN batches[TabKeys[j]] ELSE <<>>


====
